---- MODULE Spec2Model ----
(***************************************************************************)
(* Model of the performance-regression pipeline of nexus-synth:            *)
(*   .github/scripts/performance_regression_detector.py  (store, analyzer, *)
(*                                                        loader, main)    *)
(*   .github/scripts/update_performance_baseline.py      (retention)       *)
(*   .github/scripts/regression_detector.py              (the secondary,   *)
(*                                                        split-sample     *)
(*                                                        detector)        *)
(*                                                                         *)
(* Execution times are integers (one unit = one measurement quantum); the  *)
(* mean of a baseline is kept as the pair (sum, n) and a change percent as *)
(* a fraction num/den with den > 0, so that every threshold comparison of  *)
(* the code is decided exactly.                                            *)
(*                                                                         *)
(* An instant is <<day, tod>> (calendar day, time of day).  The code never *)
(* compares instants: it compares their TEXT.  datetime.isoformat() gives  *)
(* "YYYY-MM-DDTHH:MM:SS.ffffff" and SQLite's CURRENT_TIMESTAMP gives       *)
(* "YYYY-MM-DD HH:MM:SS"; both are modelled as the tuple                   *)
(* <<day, separator character, tod>> compared lexicographically, as the    *)
(* TEXT comparison of SQLite does.  The host clock is taken to be UTC (the *)
(* CI runners'), so datetime.now() and CURRENT_TIMESTAMP read one clock.   *)
(* Clock reads are non-decreasing; two reads may return the same instant.  *)
(***************************************************************************)
EXTENDS Integers, Sequences, FiniteSets, TLC

VARIABLES
    now,              \* the wall clock, <<day, tod>>
    metricsTable,     \* table performance_metrics, in rowid order
    nextMetricId,     \* AUTOINCREMENT counter of performance_metrics
    alertsTable,      \* table regression_alerts, in rowid order
    pc,               \* position of the detector's main(): "start", "loaded",
                      \* "analyze", "done"
    current_metrics,  \* main(): the list load_benchmark_results returned
    idx,              \* analyze_current_metrics: index of the next record (1-based)
    alerts,           \* analyze_current_metrics: the list it is building
    exitStatus,       \* how main() ended: its return value, or the exception
    githubOutput,     \* main(): the lines appended to the GITHUB_OUTPUT file
    sevCurrent,       \* severity table: the current value tried (tenths of a ms)
    sevResult,        \* severity table: the tier computed for it
    secResult,        \* severity table: what regression_detector.py reports for it
    thresholds,       \* RegressionDetector.thresholds, in percent
    baseline_days,    \* main(): args.baseline_days
    mgrPc,            \* update_performance_baseline.main: "idle", "backed_up",
                      \* "validated", "cleaning", "cleaned", "optimized", "done"
    mgrExit,          \* update_performance_baseline.main: its return value
    report,           \* the file regression_summary.md of the output directory
    runs,             \* detector invocations started on this output directory
    txn,              \* the store operation followed statement by statement: its
                      \* connection, its transaction and the connection's view
    observed,         \* what another connection last read from the database file
    grouped,          \* regression_detector.py: the items of one (platform,
                      \* benchmark) group, in the order they were loaded
    split,            \* regression_detector.py: the two samples it compared and
                      \* what it reported
    recent,           \* the last get_recent_alerts call: its arguments and rows
    mgrLog            \* update_performance_baseline.main: what its steps did

vars == <<now, metricsTable, nextMetricId, alertsTable, pc, current_metrics,
          idx, alerts, exitStatus, githubOutput, sevCurrent, sevResult,
          secResult, thresholds, baseline_days, mgrPc, mgrExit, report, runs,
          txn, observed, grouped, split, recent, mgrLog>>

-----------------------------------------------------------------------------
(* Bounds of the model *)

MaxHist == 5
MaxBatch == 2
MaxTod == 1
MaxDayJumps == 1
MaxSevCurrent == 1600
MaxRuns == 2
MaxGroup == 4

(* Program constants *)

DefaultDaysBack == 30
MinSampleSize == 5
ThresholdMinor == 5
ThresholdModerate == 15
ThresholdMajor == 25
ThresholdCritical == 50
DefaultRetainDays == 365
DefaultAlertDaysBack == 7
SecondaryThreshold == 10
CharSpace == 32
CharT == 84

(* Input domains *)

Benchmarks == {"A", "B"}
Platforms == {"P1", "P2"}
Branches == {"main", "feature/x"}
\* A JSON value of avg_execution_time_ns: a number, or text float() rejects.
Number(v) == [is_number |-> TRUE, value |-> v]
Malformed == [is_number |-> FALSE, value |-> 0]
Values == {-3, 0, 6}
HistValues == {-1, 0, 2}
RetainChoices == {0, DefaultDaysBack, DefaultRetainDays}
Tods == 0..MaxTod

-----------------------------------------------------------------------------
(* Time and its textual forms *)

MinusDays(t, days) == <<t[1] - days, t[2]>>

IsoFormat(t) == <<t[1], CharT, t[2]>>

CurrentTimestamp(t) == <<t[1], CharSpace, t[2]>>

\* SQLite's TEXT "<": the first differing position decides.
TextLess(a, b) ==
    \/ a[1] < b[1]
    \/ a[1] = b[1] /\ a[2] < b[2]
    \/ a[1] = b[1] /\ a[2] = b[2] /\ a[3] < b[3]

\* The instant a stored text denotes, and the order of instants.
InstantOf(text) == <<text[1], text[3]>>

Earlier(s, t) == s[1] < t[1] \/ (s[1] = t[1] /\ s[2] < t[2])

-----------------------------------------------------------------------------
(* Sequences *)

RECURSIVE SumTimes(_)
SumTimes(rows) ==
    IF rows = <<>> THEN 0
    ELSE Head(rows).execution_time_ns + SumTimes(Tail(rows))

RECURSIVE InsertDesc(_, _)
InsertDesc(r, sorted) ==
    IF sorted = <<>> THEN <<r>>
    ELSE IF TextLess(Head(sorted).timestamp, r.timestamp)
         THEN <<r>> \o sorted
         ELSE <<Head(sorted)>> \o InsertDesc(r, Tail(sorted))

\* ORDER BY timestamp DESC; rows of equal timestamp stay in rowid order.
RECURSIVE OrderByTimestampDesc(_)
OrderByTimestampDesc(rows) ==
    IF rows = <<>> THEN <<>>
    ELSE InsertDesc(Head(rows), OrderByTimestampDesc(Tail(rows)))

-----------------------------------------------------------------------------
(* PerformanceDatabase *)

MetricRow(id, m) ==
    [id |-> id,
     benchmark_name |-> m.benchmark_name,
     platform |-> m.platform,
     execution_time_ns |-> m.execution_time_ns,
     timestamp |-> m.timestamp,
     branch |-> m.branch]

SameMetric(r, m) ==
    /\ r.benchmark_name = m.benchmark_name
    /\ r.platform = m.platform
    /\ r.execution_time_ns = m.execution_time_ns
    /\ r.timestamp = m.timestamp
    /\ r.branch = m.branch

RECURSIVE StoreMetricsDedup(_, _, _)
StoreMetricsDedup(table, metrics, firstId) ==
    IF metrics = <<>> THEN table
    ELSE IF \E i \in 1..Len(table) : SameMetric(table[i], Head(metrics))
         THEN StoreMetricsDedup(table, Tail(metrics), firstId + 1)
         ELSE StoreMetricsDedup(Append(table, MetricRow(firstId, Head(metrics))),
                                Tail(metrics), firstId + 1)

\* store_metrics: one INSERT per metric, in list order, one transaction.
RECURSIVE StoreMetrics(_, _, _)
StoreMetrics(table, metrics, firstId) ==
    IF metrics = <<>> THEN table
    ELSE StoreMetrics(Append(table, MetricRow(firstId, Head(metrics))),
                      Tail(metrics), firstId + 1)

BaselineWhereAnyBranch(r, benchmark_name, platform, cutoff_date) ==
    /\ r.benchmark_name = benchmark_name
    /\ r.platform = platform
    /\ TextLess(cutoff_date, r.timestamp)

BaselineWhereFromCutoff(r, benchmark_name, platform, cutoff_date) ==
    /\ r.benchmark_name = benchmark_name
    /\ r.platform = platform
    /\ ~TextLess(r.timestamp, cutoff_date)
    /\ r.branch = "main"

\* WHERE benchmark_name = ? AND platform = ? AND timestamp > ? AND branch = 'main'
BaselineWhere(r, benchmark_name, platform, cutoff_date) ==
    /\ r.benchmark_name = benchmark_name
    /\ r.platform = platform
    /\ TextLess(cutoff_date, r.timestamp)
    /\ r.branch = "main"

\* get_baseline_metrics(benchmark_name, platform, days_back) called at `clock`
GetBaselineMetrics(table, benchmark_name, platform, days_back, clock) ==
    LET cutoff_date == IsoFormat(MinusDays(clock, days_back))
    IN  OrderByTimestampDesc(
            SelectSeq(table,
                LAMBDA r : BaselineWhere(r, benchmark_name, platform, cutoff_date)))

RECURSIVE InsertCreatedDesc(_, _)
InsertCreatedDesc(r, sorted) ==
    IF sorted = <<>> THEN <<r>>
    ELSE IF TextLess(Head(sorted).created_at, r.created_at)
         THEN <<r>> \o sorted
         ELSE <<Head(sorted)>> \o InsertCreatedDesc(r, Tail(sorted))

\* ORDER BY created_at DESC; rows of equal created_at stay in rowid order.
RECURSIVE OrderByCreatedAtDesc(_)
OrderByCreatedAtDesc(rows) ==
    IF rows = <<>> THEN <<>>
    ELSE InsertCreatedDesc(Head(rows), OrderByCreatedAtDesc(Tail(rows)))

\* SELECT *: every row with its id, the position of the row in the table
\* (AUTOINCREMENT, no row deleted).
WithIds(table) ==
    [i \in 1..Len(table) |-> [id |-> i] @@ table[i]]

\* WHERE created_at > ? [AND resolved = FALSE]
RecentWhere(a, cutoff_date, unresolved_only) ==
    /\ TextLess(cutoff_date, a.created_at)
    /\ unresolved_only => a.resolved = FALSE

\* get_recent_alerts(days_back, unresolved_only) called at `clock`
GetRecentAlerts(table, days_back, unresolved_only, clock) ==
    LET cutoff_date == IsoFormat(MinusDays(clock, days_back))
    IN  OrderByCreatedAtDesc(
            SelectSeq(WithIds(table),
                LAMBDA a : RecentWhere(a, cutoff_date, unresolved_only)))

\* store_alert: INSERT; resolved and created_at take their column defaults.
StoreAlert(table, alert, clock) ==
    Append(table,
           [benchmark_name |-> alert.benchmark_name,
            platform |-> alert.platform,
            severity |-> alert.severity,
            current_value |-> alert.current_value,
            baseline_value |-> alert.baseline_value,
            change_percent |-> alert.change_percent,
            timestamp |-> alert.timestamp,
            statistical_significance |-> alert.statistical_significance,
            resolved |-> FALSE,
            created_at |-> CurrentTimestamp(clock)])

-----------------------------------------------------------------------------
(* RegressionDetector *)

ChangePercentOverCurrent(current_time, sum, n) ==
    IF current_time > 0
    THEN [num |-> (current_time * n - sum) * 100, den |-> current_time * n]
    ELSE [num |-> (sum - current_time * n) * 100, den |-> 0 - current_time * n]

\* ((current_time - baseline_mean) / baseline_mean) * 100 with
\* baseline_mean = sum / n, as a fraction with a positive denominator.
\* Only used when sum # 0.
ChangePercent(current_time, sum, n) ==
    IF sum > 0
    THEN [num |-> (current_time * n - sum) * 100, den |-> sum]
    ELSE [num |-> (sum - current_time * n) * 100, den |-> 0 - sum]

Abs(x) == IF x < 0 THEN 0 - x ELSE x

\* self.thresholds as __init__ sets it
DefaultThresholds ==
    [minor |-> ThresholdMinor, moderate |-> ThresholdModerate,
     major |-> ThresholdMajor, critical |-> ThresholdCritical]

CalculateSeverityStrict(change_percent) ==
    LET abs_num == Abs(change_percent.num)
        den == change_percent.den
    IN  IF change_percent.num <= 0 THEN "none"
        ELSE IF abs_num > thresholds.critical * den THEN "critical"
        ELSE IF abs_num > thresholds.major * den THEN "major"
        ELSE IF abs_num > thresholds.moderate * den THEN "moderate"
        ELSE IF abs_num > thresholds.minor * den THEN "minor"
        ELSE "none"

CalculateSeverityNoSignGate(change_percent) ==
    LET abs_num == Abs(change_percent.num)
        den == change_percent.den
    IN  IF abs_num >= thresholds.critical * den THEN "critical"
        ELSE IF abs_num >= thresholds.major * den THEN "major"
        ELSE IF abs_num >= thresholds.moderate * den THEN "moderate"
        ELSE IF abs_num >= thresholds.minor * den THEN "minor"
        ELSE "none"

\* _calculate_severity, reading self.thresholds
CalculateSeverity(change_percent) ==
    LET abs_num == Abs(change_percent.num)
        den == change_percent.den
    IN  IF change_percent.num <= 0 THEN "none"
        ELSE IF abs_num >= thresholds.critical * den THEN "critical"
        ELSE IF abs_num >= thresholds.major * den THEN "major"
        ELSE IF abs_num >= thresholds.moderate * den THEN "moderate"
        ELSE IF abs_num >= thresholds.minor * den THEN "minor"
        ELSE "none"

InsufficientDataOffByOne(baseline_metrics) ==
    Len(baseline_metrics) < MinSampleSize - 1

\* if len(baseline_metrics) < self.min_sample_size: return None
InsufficientData(baseline_metrics) ==
    Len(baseline_metrics) < MinSampleSize

BaselineStdPositiveMoreThanOne(baseline_metrics) ==
    Len(baseline_metrics) > 1

\* statistics.stdev(baseline_times) > 0: the baseline times are not all equal
BaselineStdPositive(baseline_metrics) ==
    \E i, j \in 1..Len(baseline_metrics) :
        baseline_metrics[i].execution_time_ns # baseline_metrics[j].execution_time_ns

\* The baseline _analyze_single_metric fetches for a record at `clock`.
BaselineOf(metric, table, clock) ==
    GetBaselineMetrics(table, metric.benchmark_name, metric.platform,
                       DefaultDaysBack, clock)

AnalyzeSingleMetricSignificanceGate(metric, table, clock) ==
    LET baseline_metrics == BaselineOf(metric, table, clock)
        n == Len(baseline_metrics)
        sum == SumTimes(baseline_metrics)
    IN  IF InsufficientData(baseline_metrics) THEN [kind |-> "None"]
        ELSE IF sum = 0 THEN [kind |-> "ZeroDivisionError"]
        ELSE LET change_percent == ChangePercent(metric.execution_time_ns, sum, n)
                 severity == CalculateSeverity(change_percent)
             IN  IF severity = "none" \/ ~BaselineStdPositive(baseline_metrics)
                 THEN [kind |-> "None"]
                 ELSE [kind |-> "alert",
                       benchmark_name |-> metric.benchmark_name,
                       platform |-> metric.platform,
                       severity |-> severity,
                       current_value |-> metric.execution_time_ns,
                       baseline_value |-> [sum |-> sum, n |-> n],
                       change_percent |-> change_percent,
                       timestamp |-> metric.timestamp,
                       statistical_significance |-> "ttest_1samp"]

\* The outcome of _analyze_single_metric: kind "None" for a return of None,
\* "ZeroDivisionError" when the division by baseline_mean raises, and
\* "alert" with the RegressionAlert otherwise.
AnalyzeSingleMetric(metric, table, clock) ==
    LET baseline_metrics == BaselineOf(metric, table, clock)
        n == Len(baseline_metrics)
        sum == SumTimes(baseline_metrics)
    IN  IF InsufficientData(baseline_metrics) THEN [kind |-> "None"]
        ELSE IF sum = 0 THEN [kind |-> "ZeroDivisionError"]
        ELSE LET change_percent == ChangePercent(metric.execution_time_ns, sum, n)
                 severity == CalculateSeverity(change_percent)
             IN  IF severity = "none" THEN [kind |-> "None"]
                 ELSE [kind |-> "alert",
                       benchmark_name |-> metric.benchmark_name,
                       platform |-> metric.platform,
                       severity |-> severity,
                       current_value |-> metric.execution_time_ns,
                       baseline_value |-> [sum |-> sum, n |-> n],
                       change_percent |-> change_percent,
                       timestamp |-> metric.timestamp,
                       statistical_significance |->
                           IF BaselineStdPositive(baseline_metrics)
                           THEN "ttest_1samp" ELSE "1.0"]

-----------------------------------------------------------------------------
(* regression_detector.RegressionDetector, the secondary detector *)

\* No call of the secondary detector has been made.
SecondaryUnset == [kind |-> "unset"]

\* _calculate_severity of regression_detector.py, on a fraction num/den
SecondaryCalculateSeverity(percent_change) ==
    LET abs_num == Abs(percent_change.num)
        den == percent_change.den
    IN  IF abs_num > 50 * den THEN "critical"
        ELSE IF abs_num > 30 * den THEN "high"
        ELSE IF abs_num > 15 * den THEN "medium"
        ELSE "low"

\* timing_data: the times of the items that are > 0, in order
TimingData(benchmark_data) == SelectSeq(benchmark_data, LAMBDA t : t > 0)

RECURSIVE SumSeq(_)
SumSeq(s) == IF s = <<>> THEN 0 ELSE Head(s) + SumSeq(Tail(s))

\* mid_point = len(timing_data) // 2
MidPoint(timing_data) == Len(timing_data) \div 2

\* timing_data[:mid_point] if mid_point > 0 else timing_data[:-1]
BaselinePart(timing_data) ==
    IF MidPoint(timing_data) > 0
    THEN SubSeq(timing_data, 1, MidPoint(timing_data))
    ELSE SubSeq(timing_data, 1, Len(timing_data) - 1)

CurrentPartFromMidPoint(timing_data) ==
    SubSeq(timing_data, MidPoint(timing_data), Len(timing_data))

\* timing_data[mid_point:] if mid_point > 0 else timing_data[-1:]
CurrentPart(timing_data) ==
    IF MidPoint(timing_data) > 0
    THEN SubSeq(timing_data, MidPoint(timing_data) + 1, Len(timing_data))
    ELSE SubSeq(timing_data, Len(timing_data), Len(timing_data))

\* The body of the loop of _analyze_platform_regressions for one benchmark
\* whose items have the times benchmark_data: "skipped" for a continue,
\* "none" when nothing is appended, else the list appended to and the
\* severity.  The first half of timing_data is the baseline, the second
\* half the current sample; percent_change is
\* (current_avg - baseline_avg) / baseline_avg * 100 as a fraction.
SecondaryAnalyzeBenchmark(benchmark_data) ==
    IF Len(benchmark_data) < 2 THEN [kind |-> "skipped"]
    ELSE LET timing_data == TimingData(benchmark_data)
         IN  IF Len(timing_data) < 2 THEN [kind |-> "skipped"]
             ELSE LET baseline_times == BaselinePart(timing_data)
                      current_times == CurrentPart(timing_data)
                      sum_b == SumSeq(baseline_times)
                      sum_c == SumSeq(current_times)
                      percent_change ==
                          [num |-> (sum_c * Len(baseline_times)
                                      - sum_b * Len(current_times)) * 100,
                           den |-> sum_b * Len(current_times)]
                  IN  IF Abs(percent_change.num)
                            > SecondaryThreshold * percent_change.den
                      THEN [kind |-> IF percent_change.num > 0
                                     THEN "regression" ELSE "improvement",
                            percent_change |-> percent_change,
                            severity |-> SecondaryCalculateSeverity(percent_change)]
                      ELSE [kind |-> "none"]

-----------------------------------------------------------------------------
(* load_benchmark_results, for one JSON file of the input directory *)

Entries ==
    [benchmark_name : Benchmarks,
     avg_execution_time_ns : {Number(v) : v \in Values} \cup {Malformed},
     benchmark_successful : BOOLEAN]

EntryLists == UNION {[1..k -> Entries] : k \in 1..MaxBatch}

\* Entries with benchmark_successful false are skipped; float() of a
\* malformed value raises ValueError, which the except clause around the
\* whole file catches: the rest of the file is not read.
RECURSIVE LoadFile(_, _, _, _)
LoadFile(entries, platform, branch, clock) ==
    IF entries = <<>> THEN <<>>
    ELSE LET e == Head(entries)
         IN  IF ~e.benchmark_successful
             THEN LoadFile(Tail(entries), platform, branch, clock)
             ELSE IF ~e.avg_execution_time_ns.is_number THEN <<>>
             ELSE <<[benchmark_name |-> e.benchmark_name,
                     platform |-> platform,
                     execution_time_ns |-> e.avg_execution_time_ns.value,
                     timestamp |-> IsoFormat(clock),
                     branch |-> branch]>>
                  \o LoadFile(Tail(entries), platform, branch, clock)

-----------------------------------------------------------------------------
(* Initial states: one invocation of the detector's main() is about to     *)
(* start, over a store that earlier invocations filled with histLen rows   *)
(* of one key.                                                             *)

HistoryRow(i, v) ==
    [id |-> i, benchmark_name |-> "A", platform |-> "P1",
     execution_time_ns |-> v, timestamp |-> IsoFormat(<<0, 0>>),
     branch |-> "main"]

InitStore ==
    /\ now = <<0, 0>>
    /\ \E histLen \in 0..MaxHist : \E v \in HistValues :
          /\ metricsTable = [i \in 1..histLen |-> HistoryRow(i, v)]
          /\ nextMetricId = histLen + 1
    /\ alertsTable = <<>>
    /\ pc = "start"
    /\ current_metrics = <<>>
    /\ idx = 1
    /\ alerts = <<>>
    /\ exitStatus = "none"
    /\ githubOutput = <<>>

\* What generate_summary_report writes to regression_summary.md: the text
\* "No performance regressions detected" when the list is empty, otherwise
\* the line "**Total Regressions:** n" and one table row per alert.
SummaryReport(alert_list) ==
    [exists |-> TRUE, total_regressions |-> Len(alert_list), rows |-> alert_list]

\* The output directory before the first run: no regression_summary.md.
NoReport ==
    [exists |-> FALSE, total_regressions |-> 0, rows |-> <<>>]

\* run_test_scenario reads the report: alerts_found is non-empty exactly when
\* the file exists, lacks "No performance regressions detected" and has a
\* line with "regressions" and "**" (the Total Regressions line).
ReportIndicatesRegressions(file) ==
    file.exists /\ file.rows # <<>>

\* get_recent_alerts was not called.
NoQuery ==
    [set |-> FALSE, days_back |-> DefaultAlertDaysBack, unresolved_only |-> TRUE,
     at |-> <<0, 0>>, rows |-> <<>>]

\* regression_detector.py has analyzed no group.
NoSplit ==
    [kind |-> "unset", baseline |-> <<>>, current |-> <<>>,
     outcome |-> SecondaryUnset]

\* No store operation is under way; its fields are those of the operation
\* followed last: the state of its connection object, the statements
\* executed, the tables as its connection sees them and as they were when
\* it connected.
NoTxn ==
    [op |-> "none", step |-> "none", connection |-> "none",
     cutoff_date |-> IsoFormat(<<0, 0>>), batch |-> <<>>,
     metrics |-> <<>>, alerts |-> <<>>,
     before_metrics |-> <<>>, before_alerts |-> <<>>]

\* Nothing was read by another connection yet.
NotObserved ==
    [set |-> FALSE, during |-> "none", metrics |-> <<>>, alerts |-> <<>>]

\* A fresh output directory, first invocation, no operation under way.
InitEnvironment ==
    /\ report = NoReport
    /\ runs = 1
    /\ txn = NoTxn
    /\ observed = NotObserved
    /\ grouped = <<>>
    /\ split = NoSplit
    /\ recent = NoQuery
    /\ mgrLog = <<>>

\* The baseline manager is not running.
InitManager ==
    /\ mgrPc = "idle"
    /\ mgrExit = "none"
    /\ InitEnvironment

\* main() run without options.
InitDefaults ==
    /\ thresholds = DefaultThresholds
    /\ baseline_days = DefaultDaysBack
    /\ InitManager

Init ==
    /\ InitStore
    /\ InitDefaults
    /\ sevCurrent = 0
    /\ sevResult = "unset"
    /\ secResult = SecondaryUnset

sevVars == <<sevCurrent, sevResult, secResult>>
storeVars == <<metricsTable, nextMetricId, alertsTable>>
runVars == <<pc, current_metrics, idx, alerts, exitStatus, githubOutput>>
cfgVars == <<thresholds, baseline_days>>
mgrVars == <<mgrPc, mgrExit>>
envVars == <<report, runs>>
dbVars == <<txn, observed>>
secVars == <<grouped, split>>
outVars == <<recent, mgrLog>>

-----------------------------------------------------------------------------
(* The clock *)

TickTod ==
    /\ now[2] < MaxTod
    /\ now' = <<now[1], now[2] + 1>>
    /\ UNCHANGED <<storeVars, runVars, sevVars, secVars, outVars, cfgVars, mgrVars, envVars, dbVars>>

\* A whole lookback period passes; no invocation lasts that long.
TickDays ==
    /\ pc \in {"start", "done"}
    /\ now[1] + DefaultDaysBack <= MaxDayJumps * DefaultDaysBack
    /\ \E tod \in Tods : now' = <<now[1] + DefaultDaysBack, tod>>
    /\ UNCHANGED <<storeVars, runVars, sevVars, secVars, outVars, cfgVars, mgrVars, envVars, dbVars>>

-----------------------------------------------------------------------------
(* performance_regression_detector.main *)

\* current_metrics = load_benchmark_results(args.input), and the early
\* return 1 when nothing was loaded.
LoadBenchmarkResults ==
    /\ pc = "start"
    /\ \E entries \in EntryLists, platform \in Platforms, branch \in Branches :
          LET loaded == LoadFile(entries, platform, branch, now)
          IN  /\ current_metrics' = loaded
              /\ IF loaded = <<>>
                 THEN pc' = "done" /\ exitStatus' = "1"
                 ELSE pc' = "loaded" /\ exitStatus' = "none"
    /\ UNCHANGED <<idx, alerts, githubOutput>>
    /\ UNCHANGED <<now, storeVars, sevVars, secVars, outVars, cfgVars, mgrVars, envVars, dbVars>>

\* database.store_metrics(current_metrics)
StoreCurrentMetrics ==
    /\ pc = "loaded"
    /\ metricsTable' = StoreMetrics(metricsTable, current_metrics, nextMetricId)
    /\ nextMetricId' = nextMetricId + Len(current_metrics)
    /\ pc' = "analyze"
    /\ UNCHANGED <<now, alertsTable, current_metrics, idx, alerts, exitStatus,
                   githubOutput, sevVars, secVars, outVars, cfgVars, mgrVars, envVars, dbVars>>

AnalyzeNextStoresTwice ==
    /\ pc = "analyze"
    /\ idx <= Len(current_metrics)
    /\ LET alert == AnalyzeSingleMetric(current_metrics[idx], metricsTable, now)
       IN  IF alert.kind = "ZeroDivisionError"
           THEN /\ pc' = "done"
                /\ exitStatus' = "ZeroDivisionError"
                /\ UNCHANGED <<idx, alerts, alertsTable>>
           ELSE IF alert.kind = "None"
           THEN /\ idx' = idx + 1
                /\ UNCHANGED <<pc, exitStatus, alerts, alertsTable>>
           ELSE /\ idx' = idx + 1
                /\ alerts' = Append(alerts, alert)
                /\ alertsTable' =
                      StoreAlert(StoreAlert(alertsTable, alert, now), alert, now)
                /\ UNCHANGED <<pc, exitStatus>>
    /\ UNCHANGED <<now, metricsTable, nextMetricId, current_metrics, githubOutput,
                   sevVars, secVars, outVars, cfgVars, mgrVars, envVars, dbVars>>

\* One iteration of the loop of analyze_current_metrics.
AnalyzeNext ==
    /\ pc = "analyze"
    /\ idx <= Len(current_metrics)
    /\ LET alert == AnalyzeSingleMetric(current_metrics[idx], metricsTable, now)
       IN  IF alert.kind = "ZeroDivisionError"
           THEN /\ pc' = "done"
                /\ exitStatus' = "ZeroDivisionError"
                /\ UNCHANGED <<idx, alerts, alertsTable>>
           ELSE IF alert.kind = "None"
           THEN /\ idx' = idx + 1
                /\ UNCHANGED <<pc, exitStatus, alerts, alertsTable>>
           ELSE /\ idx' = idx + 1
                /\ alerts' = Append(alerts, alert)
                /\ alertsTable' = StoreAlert(alertsTable, alert, now)
                /\ UNCHANGED <<pc, exitStatus>>
    /\ UNCHANGED <<now, metricsTable, nextMetricId, current_metrics, githubOutput,
                   sevVars, secVars, outVars, cfgVars, mgrVars, envVars, dbVars>>

\* What main appends to the GITHUB_OUTPUT file (the variable is set on the
\* CI runners).
OutputSummary(alert_list) ==
    [regression_count |-> Len(alert_list),
     critical_regressions |->
         Len(SelectSeq(alert_list, LAMBDA a : a.severity = "critical")),
     has_regressions |-> alert_list # <<>>]

\* The loop is over: reports are written and main returns 0.
FinishRun ==
    /\ pc = "analyze"
    /\ idx > Len(current_metrics)
    /\ pc' = "done"
    /\ exitStatus' = "0"
    /\ githubOutput' = Append(githubOutput, OutputSummary(alerts))
    /\ report' = IF alerts # <<>> THEN SummaryReport(alerts) ELSE report
    /\ UNCHANGED <<now, storeVars, current_metrics, idx, alerts, sevVars, secVars, outVars, cfgVars,
                   mgrVars, runs, dbVars>>

-----------------------------------------------------------------------------
(* Store failures: a sqlite3 call of PerformanceDatabase raises             *)
(* sqlite3.Error (database locked, disk I/O error).  Nothing in             *)
(* performance_regression_detector.py catches it: the exception leaves      *)
(* main() and the interpreter ends with a traceback.                        *)

\* store_metrics raises; its transaction is rolled back.
StoreMetricsFails ==
    /\ pc = "loaded"
    /\ pc' = "done"
    /\ exitStatus' = "sqlite3.Error"
    /\ UNCHANGED <<now, storeVars, current_metrics, idx, alerts, githubOutput,
                   sevVars, secVars, outVars, cfgVars, mgrVars, envVars, dbVars>>

\* get_baseline_metrics raises in _analyze_single_metric.
GetBaselineMetricsFails ==
    /\ pc = "analyze"
    /\ idx <= Len(current_metrics)
    /\ pc' = "done"
    /\ exitStatus' = "sqlite3.Error"
    /\ UNCHANGED <<now, storeVars, current_metrics, idx, alerts, githubOutput,
                   sevVars, secVars, outVars, cfgVars, mgrVars, envVars, dbVars>>

StoreAlertFailsSwallowed ==
    /\ pc = "analyze"
    /\ idx <= Len(current_metrics)
    /\ LET alert == AnalyzeSingleMetric(current_metrics[idx], metricsTable, now)
       IN  /\ alert.kind = "alert"
           /\ alerts' = Append(alerts, alert)
    /\ idx' = idx + 1
    /\ UNCHANGED <<now, storeVars, pc, exitStatus, current_metrics, githubOutput,
                   sevVars, secVars, outVars, cfgVars, mgrVars, envVars, dbVars>>

\* store_alert raises, after the alert was appended to the list.
StoreAlertFails ==
    /\ pc = "analyze"
    /\ idx <= Len(current_metrics)
    /\ LET alert == AnalyzeSingleMetric(current_metrics[idx], metricsTable, now)
       IN  /\ alert.kind = "alert"
           /\ alerts' = Append(alerts, alert)
    /\ pc' = "done"
    /\ exitStatus' = "sqlite3.Error"
    /\ UNCHANGED <<now, storeVars, current_metrics, idx, githubOutput,
                   sevVars, secVars, outVars, cfgVars, mgrVars, envVars, dbVars>>

FailNext ==
    \/ LoadBenchmarkResults
    \/ StoreCurrentMetrics
    \/ AnalyzeNext
    \/ FinishRun
    \/ StoreMetricsFails
    \/ GetBaselineMetricsFails
    \/ StoreAlertFails

FailSpec == Init /\ [][FailNext]_vars

-----------------------------------------------------------------------------
(* update_performance_baseline.BaselineManager *)

OldMetricInclusive(r, cutoff_date) == ~TextLess(cutoff_date, r.timestamp)

OldMetric(r, cutoff_date) == TextLess(r.timestamp, cutoff_date)

OldAlert(a, cutoff_date) == TextLess(a.created_at, cutoff_date)

CutoffDate(clock, retain_days) == IsoFormat(MinusDays(clock, retain_days))

\* cleanup_old_data(retain_days): both DELETEs in one transaction.  The
\* baseline manager is its own program; it runs between detector invocations.
CleanupOldDataWith(retain_days) ==
    /\ pc \in {"start", "done"}
    /\ LET cutoff_date == CutoffDate(now, retain_days)
       IN  /\ metricsTable' =
                 SelectSeq(metricsTable, LAMBDA r : ~OldMetric(r, cutoff_date))
           /\ alertsTable' =
                 SelectSeq(alertsTable, LAMBDA a : ~OldAlert(a, cutoff_date))
    /\ UNCHANGED <<now, nextMetricId, runVars, sevVars, secVars, outVars, cfgVars, mgrVars, envVars, dbVars>>

CleanupOldData == \E retain_days \in RetainChoices : CleanupOldDataWith(retain_days)

-----------------------------------------------------------------------------
(* update_performance_baseline.main, run with --cleanup-old-data and        *)
(* --optimize between detector invocations: cleanup_old_data, then          *)
(* optimize_database, then the final statistics and return 0.  Every        *)
(* exception raised on the way is caught by main's except clause, which     *)
(* prints the failure and returns 1.                                        *)

\* manager.cleanup_old_data(args.retain_days); its transaction is committed
\* when the with block of cleanup_old_data is left.
MgrCleanupOldData ==
    /\ mgrPc = "idle"
    /\ pc \in {"start", "done"}
    /\ \E retain_days \in RetainChoices :
          LET cutoff_date == CutoffDate(now, retain_days)
          IN  /\ metricsTable' =
                    SelectSeq(metricsTable, LAMBDA r : ~OldMetric(r, cutoff_date))
              /\ alertsTable' =
                    SelectSeq(alertsTable, LAMBDA a : ~OldAlert(a, cutoff_date))
    /\ mgrPc' = "cleaned"
    /\ UNCHANGED <<now, nextMetricId, runVars, sevVars, secVars, outVars, cfgVars, mgrExit, envVars, dbVars>>

\* manager.optimize_database() runs ANALYZE, VACUUM and PRAGMA optimize,
\* none of which changes a row.
MgrOptimize ==
    /\ mgrPc = "cleaned"
    /\ mgrPc' = "optimized"
    /\ UNCHANGED <<now, storeVars, runVars, sevVars, secVars, outVars, cfgVars, mgrExit, envVars, dbVars>>

\* One of the statements of optimize_database raises sqlite3.Error: the
\* exception reaches the except clause of main, which returns 1.
MgrOptimizeFails ==
    /\ mgrPc = "cleaned"
    /\ mgrPc' = "done"
    /\ mgrExit' = "1"
    /\ UNCHANGED <<now, storeVars, runVars, sevVars, secVars, outVars, cfgVars, envVars, dbVars>>

\* get_database_stats, the success message and return 0.
MgrFinish ==
    /\ mgrPc = "optimized"
    /\ mgrPc' = "done"
    /\ mgrExit' = "0"
    /\ UNCHANGED <<now, storeVars, runVars, sevVars, secVars, outVars, cfgVars, envVars, dbVars>>

ManagerNext ==
    \/ TickTod
    \/ TickDays
    \/ MgrCleanupOldData
    \/ MgrOptimize
    \/ MgrOptimizeFails
    \/ MgrFinish

ManagerSpec == Init /\ [][ManagerNext]_vars

-----------------------------------------------------------------------------
(* update_performance_baseline.main run with --backup, --validate and      *)
(* --cleanup-old-data: backup_database, validate_database_integrity,       *)
(* update_baseline, cleanup_old_data, the final statistics.                *)

\* What backup_database can do: return the path of the copy, catch a
\* sqlite3.Error and return None, or raise another exception (the backup
\* directory cannot be created).
BackupOutcomes == {"backup_ok", "backup_failed", "backup_raised"}

\* Lines 262-266: the result of backup_database is used only to decide
\* whether old backups are removed.
MgrBackup ==
    /\ mgrPc = "idle"
    /\ mgrLog = <<>>
    /\ \E outcome \in BackupOutcomes :
          /\ mgrLog' = Append(mgrLog, outcome)
          /\ IF outcome = "backup_raised"
             THEN mgrPc' = "done" /\ mgrExit' = "1"
             ELSE mgrPc' = "backed_up" /\ UNCHANGED mgrExit
    /\ UNCHANGED <<now, storeVars, runVars, sevVars, secVars, cfgVars, envVars,
                   dbVars, recent>>

\* Rows that the GROUP BY of lines 160-165 puts in one group when their
\* commit hashes are equal too.
MayBeDuplicates(table) ==
    \E i, j \in 1..Len(table) :
        /\ i < j
        /\ table[i].benchmark_name = table[j].benchmark_name
        /\ table[i].platform = table[j].platform
        /\ table[i].timestamp = table[j].timestamp

\* validate_database_integrity: issues_found == 0.  integrity_ok is the
\* answer of PRAGMA integrity_check (or no sqlite3.Error), same_commit
\* whether rows of equal key and timestamp carry equal commit hashes.
ValidateDatabaseIntegrity(table, integrity_ok, same_commit) ==
    /\ integrity_ok
    /\ ~\E i \in 1..Len(table) : table[i].execution_time_ns <= 0
    /\ ~(MayBeDuplicates(table) /\ same_commit)

\* Lines 269-274: a failed validation ends the run with status 1.
MgrValidate ==
    /\ mgrPc = "backed_up"
    /\ \E integrity_ok, same_commit \in BOOLEAN :
          IF ValidateDatabaseIntegrity(metricsTable, integrity_ok, same_commit)
          THEN /\ mgrLog' = Append(mgrLog, "validation_passed")
               /\ mgrPc' = "validated"
               /\ UNCHANGED mgrExit
          ELSE /\ mgrLog' = Append(mgrLog, "validation_failed")
               /\ mgrPc' = "done"
               /\ mgrExit' = "1"
    /\ UNCHANGED <<now, storeVars, runVars, sevVars, secVars, cfgVars, envVars,
                   dbVars, recent>>

\* Lines 277-283: update_baseline (two COUNTs) and cleanup_old_data.
MgrCleanupAfterChecks ==
    /\ mgrPc = "validated"
    /\ \E retain_days \in RetainChoices :
          LET cutoff_date == CutoffDate(now, retain_days)
          IN  /\ metricsTable' =
                    SelectSeq(metricsTable, LAMBDA r : ~OldMetric(r, cutoff_date))
              /\ alertsTable' =
                    SelectSeq(alertsTable, LAMBDA a : ~OldAlert(a, cutoff_date))
    /\ mgrPc' = "cleaned"
    /\ mgrLog' = Append(mgrLog, "cleanup_old_data")
    /\ UNCHANGED <<now, nextMetricId, runVars, sevVars, secVars, cfgVars, mgrExit,
                   envVars, dbVars, recent>>

\* Lines 291-294 without --optimize: the final statistics and return 0.
MgrFinishAfterCleanup ==
    /\ mgrPc = "cleaned"
    /\ mgrPc' = "done"
    /\ mgrExit' = "0"
    /\ UNCHANGED <<now, storeVars, runVars, sevVars, secVars, outVars, cfgVars,
                   envVars, dbVars>>

GuardedNext ==
    \/ TickTod
    \/ TickDays
    \/ MgrBackup
    \/ MgrValidate
    \/ MgrCleanupAfterChecks
    \/ MgrFinishAfterCleanup

GuardedSpec == Init /\ [][GuardedNext]_vars

-----------------------------------------------------------------------------

Next ==
    \/ TickTod
    \/ TickDays
    \/ LoadBenchmarkResults
    \/ StoreCurrentMetrics
    \/ AnalyzeNext
    \/ FinishRun
    \/ CleanupOldData

Spec == Init /\ [][Next]_vars

-----------------------------------------------------------------------------
(* main() run with the option --baseline-days *)

BaselineDaysChoices == {0, DefaultDaysBack, 2 * DefaultDaysBack}

LookbackInit ==
    /\ InitStore
    /\ thresholds = DefaultThresholds
    /\ baseline_days \in BaselineDaysChoices
    /\ InitManager
    /\ sevCurrent = 0
    /\ sevResult = "unset"
    /\ secResult = SecondaryUnset

LookbackSpec == LookbackInit /\ [][Next]_vars

-----------------------------------------------------------------------------
(* The severity table: _calculate_severity applied to the change percent   *)
(* of a current value against a baseline of five samples of 100.0 ms, all  *)
(* in tenths of a millisecond.                                             *)

SevBaselineTimes == <<1000, 1000, 1000, 1000, 1000>>

SevInit ==
    /\ InitStore
    /\ metricsTable = <<>>
    /\ InitDefaults
    /\ sevCurrent \in 0..MaxSevCurrent
    /\ sevResult = "unset"
    /\ secResult = SecondaryUnset

Classify ==
    /\ sevResult = "unset"
    /\ sevResult' = CalculateSeverity(
           ChangePercent(sevCurrent, SumSeq(SevBaselineTimes), Len(SevBaselineTimes)))
    /\ UNCHANGED <<now, storeVars, runVars, sevCurrent, secResult, secVars, outVars, cfgVars, mgrVars, envVars, dbVars>>

\* The secondary detector on ten items of the benchmark: five of 100.0 ms
\* followed by five of the current value.
ClassifySecondary ==
    /\ secResult = SecondaryUnset
    /\ secResult' = SecondaryAnalyzeBenchmark(
           SevBaselineTimes \o [i \in 1..Len(SevBaselineTimes) |-> sevCurrent])
    /\ UNCHANGED <<now, storeVars, runVars, sevCurrent, sevResult, secVars, outVars, cfgVars, mgrVars, envVars, dbVars>>

SevNext == Classify \/ ClassifySecondary

SevSpec == SevInit /\ [][SevNext]_vars

-----------------------------------------------------------------------------
(* The analyzer on two keys in one run.  Earlier main-branch runs left     *)
(* MinSampleSize rows, or one less, of equal times for key (A, P1) and a    *)
(* baseline of any times for key (B, P1); a feature-branch run loads one    *)
(* file with one entry per key, both with the same execution time.          *)

AnalyzerValues == {-10, 8, 10, 12}

AnalyzerCurrents == {-12, 10, 11, 12, 13, 16}

StoredRow(id, benchmark_name, v) ==
    [id |-> id, benchmark_name |-> benchmark_name, platform |-> "P1",
     execution_time_ns |-> v, timestamp |-> IsoFormat(<<0, 0>>),
     branch |-> "main"]

AnalyzerInit ==
    /\ now = <<0, 0>>
    /\ \E m \in AnalyzerValues : \E flat \in (MinSampleSize - 1)..MinSampleSize :
       \E n \in MinSampleSize..MaxHist : \E times \in [1..n -> AnalyzerValues] :
          /\ metricsTable =
                [i \in 1..flat |-> StoredRow(i, "A", m)]
                \o [i \in 1..n |-> StoredRow(flat + i, "B", times[i])]
          /\ nextMetricId = flat + n + 1
    /\ alertsTable = <<>>
    /\ pc = "start"
    /\ current_metrics = <<>>
    /\ idx = 1
    /\ alerts = <<>>
    /\ exitStatus = "none"
    /\ githubOutput = <<>>
    /\ InitDefaults
    /\ sevCurrent = 0
    /\ sevResult = "unset"
    /\ secResult = SecondaryUnset

\* load_benchmark_results on the one file of the run.
AnalyzerLoad ==
    /\ pc = "start"
    /\ \E c \in AnalyzerCurrents :
          current_metrics' =
              LoadFile(<<[benchmark_name |-> "A", avg_execution_time_ns |-> Number(c),
                          benchmark_successful |-> TRUE],
                         [benchmark_name |-> "B", avg_execution_time_ns |-> Number(c),
                          benchmark_successful |-> TRUE]>>,
                       "P1", "feature/x", now)
    /\ pc' = "loaded"
    /\ UNCHANGED <<exitStatus, idx, alerts, githubOutput>>
    /\ UNCHANGED <<now, storeVars, sevVars, secVars, outVars, cfgVars, mgrVars, envVars, dbVars>>

AnalyzerNext ==
    \/ AnalyzerLoad
    \/ StoreCurrentMetrics
    \/ AnalyzeNext
    \/ FinishRun

AnalyzerSpec == AnalyzerInit /\ [][AnalyzerNext]_vars

-----------------------------------------------------------------------------
(* The end-to-end scenario: ten main-branch rows of key (A, P1) around      *)
(* 45.20 ms, k of them 10 % below and k of them 10 % above (mean 45.20 ms), *)
(* and a run whose one file holds one entry of 61.00 ms for that key.       *)
(* Times are in hundredths of a millisecond.                                *)

E2EScenario ==
    [baseline_count |-> 10, base_time |-> 4520, spread |-> 452,
     current_time |-> 6100]

E2EBaselineTime(i, k) ==
    IF i <= k THEN E2EScenario.base_time - E2EScenario.spread
    ELSE IF i <= 2 * k THEN E2EScenario.base_time + E2EScenario.spread
    ELSE E2EScenario.base_time

E2EInit ==
    /\ now = <<0, 0>>
    /\ \E k \in 0..(E2EScenario.baseline_count \div 2) :
          metricsTable = [i \in 1..E2EScenario.baseline_count |->
                             StoredRow(i, "A", E2EBaselineTime(i, k))]
    /\ nextMetricId = E2EScenario.baseline_count + 1
    /\ alertsTable = <<>>
    /\ pc = "start"
    /\ current_metrics = <<>>
    /\ idx = 1
    /\ alerts = <<>>
    /\ exitStatus = "none"
    /\ githubOutput = <<>>
    /\ InitDefaults
    /\ sevCurrent = 0
    /\ sevResult = "unset"
    /\ secResult = SecondaryUnset

\* load_benchmark_results on the one file of the run; the branch is the
\* value of GITHUB_REF_NAME, main when it is not set.
E2ELoad ==
    /\ pc = "start"
    /\ \E branch \in Branches :
          current_metrics' =
              LoadFile(<<[benchmark_name |-> "A",
                          avg_execution_time_ns |-> Number(E2EScenario.current_time),
                          benchmark_successful |-> TRUE]>>,
                       "P1", branch, now)
    /\ pc' = "loaded"
    /\ UNCHANGED <<exitStatus, idx, alerts, githubOutput>>
    /\ UNCHANGED <<now, storeVars, sevVars, secVars, outVars, cfgVars, mgrVars, envVars, dbVars>>

E2ENext ==
    \/ TickTod
    \/ E2ELoad
    \/ StoreCurrentMetrics
    \/ AnalyzeNext
    \/ FinishRun

E2ESpec == E2EInit /\ [][E2ENext]_vars

-----------------------------------------------------------------------------
(* The severity policy under overridden thresholds: detector.thresholds is  *)
(* replaced by a monotonic boundary set, and _calculate_severity is applied *)
(* to the change percent of one current value after the other, in rising    *)
(* order, against the same baseline of 100.0 ms.                            *)

ThresholdChoices ==
    {3, ThresholdMinor, ThresholdModerate, ThresholdMajor, ThresholdCritical, 55}

MonotonicThresholdSets ==
    {t \in [minor : ThresholdChoices, moderate : ThresholdChoices,
            major : ThresholdChoices, critical : ThresholdChoices] :
        t.minor <= t.moderate /\ t.moderate <= t.major /\ t.major <= t.critical}

PolicyInit ==
    /\ InitStore
    /\ metricsTable = <<>>
    /\ thresholds \in MonotonicThresholdSets
    /\ baseline_days = DefaultDaysBack
    /\ InitManager
    /\ sevCurrent = 0
    /\ sevResult = "unset"
    /\ secResult = SecondaryUnset

\* The next call, with the current value one tenth of a millisecond higher.
RaiseCurrent ==
    /\ sevResult # "unset"
    /\ sevCurrent < MaxSevCurrent
    /\ sevCurrent' = sevCurrent + 1
    /\ sevResult' = CalculateSeverity(
           ChangePercent(sevCurrent', SumSeq(SevBaselineTimes), Len(SevBaselineTimes)))
    /\ UNCHANGED <<now, storeVars, runVars, secResult, secVars, outVars, cfgVars, mgrVars, envVars, dbVars>>

PolicyNext == Classify \/ RaiseCurrent

PolicySpec == PolicyInit /\ [][PolicyNext]_vars

-----------------------------------------------------------------------------
(* Successive detector invocations on one database and one output          *)
(* directory, as run_test_scenario makes them: the baseline run, then the  *)
(* analysis run, both with the same --output.                              *)

\* The next process starts: a fresh main(), the database file and the output
\* directory are those the previous process left.
NewInvocation ==
    /\ pc = "done"
    /\ runs < MaxRuns
    /\ runs' = runs + 1
    /\ pc' = "start"
    /\ current_metrics' = <<>>
    /\ idx' = 1
    /\ alerts' = <<>>
    /\ exitStatus' = "none"
    /\ githubOutput' = <<>>
    /\ UNCHANGED <<now, storeVars, sevVars, secVars, outVars, cfgVars, mgrVars, report, dbVars>>

ReportValues == {2, 3}

\* The store holds MaxHist main-branch rows of key (A, P1), all of 2.
ReportInit ==
    /\ InitStore
    /\ metricsTable = [i \in 1..MaxHist |-> HistoryRow(i, 2)]
    /\ InitDefaults
    /\ sevCurrent = 0
    /\ sevResult = "unset"
    /\ secResult = SecondaryUnset

\* load_benchmark_results on a directory of well-formed results of benchmark
\* A on platform P1, on branch main; the early return 1 when the directory
\* holds no result.
ReportLoad ==
    /\ pc = "start"
    /\ \E k \in 0..MaxBatch :
       \E entries \in [1..k -> [benchmark_name : {"A"},
                                avg_execution_time_ns : {Number(v) : v \in ReportValues},
                                benchmark_successful : {TRUE}]] :
          LET loaded == LoadFile(entries, "P1", "main", now)
          IN  /\ current_metrics' = loaded
              /\ IF loaded = <<>>
                 THEN pc' = "done" /\ exitStatus' = "1"
                 ELSE pc' = "loaded" /\ exitStatus' = "none"
    /\ UNCHANGED <<idx, alerts, githubOutput>>
    /\ UNCHANGED <<now, storeVars, sevVars, secVars, outVars, cfgVars, mgrVars, envVars, dbVars>>

ReportNext ==
    \/ ReportLoad
    \/ StoreCurrentMetrics
    \/ AnalyzeNext
    \/ FinishRun
    \/ NewInvocation

ReportSpec == ReportInit /\ [][ReportNext]_vars

-----------------------------------------------------------------------------
(* regression_detector.py on one (platform, benchmark) group.  An item is  *)
(* [arrival, avg_execution_time_ns]: its position in the list              *)
(* _load_all_benchmark_data built, and the value _safe_get_numeric returns *)
(* for it (0 when the timing is missing or not numeric).                   *)

GroupTimes == {-1, 0, 10, 12}

GroupInit ==
    /\ InitStore
    /\ InitDefaults
    /\ sevCurrent = 0
    /\ sevResult = "unset"
    /\ secResult = SecondaryUnset

\* _group_benchmark_data: the items of the group, in loading order.
GroupBenchmarkData ==
    /\ grouped = <<>>
    /\ split.kind = "unset"
    /\ \E n \in 1..MaxGroup : \E times \in [1..n -> GroupTimes] :
          grouped' =
              [i \in 1..n |-> [arrival |-> i, avg_execution_time_ns |-> times[i]]]
    /\ UNCHANGED <<now, storeVars, runVars, sevVars, outVars, cfgVars, mgrVars, envVars,
                   dbVars, split>>

\* The items the loop of lines 167-170 keeps, in order.
ValidItems(items) ==
    SelectSeq(items, LAMBDA item : item.avg_execution_time_ns > 0)

\* The times of the items, in order.
TimesOf(items) == [i \in 1..Len(items) |-> items[i].avg_execution_time_ns]

\* One iteration of the loop of _analyze_platform_regressions: the two
\* samples it compares and what it appends.
AnalyzeGroup ==
    /\ grouped # <<>>
    /\ split.kind = "unset"
    /\ LET timing_items == ValidItems(grouped)
           skipped == Len(grouped) < 2 \/ Len(timing_items) < 2
       IN  split' =
              [kind |-> IF skipped THEN "skipped" ELSE "compared",
               baseline |-> IF skipped THEN <<>> ELSE BaselinePart(timing_items),
               current |-> IF skipped THEN <<>> ELSE CurrentPart(timing_items),
               outcome |-> SecondaryAnalyzeBenchmark(TimesOf(grouped))]
    /\ UNCHANGED <<now, storeVars, runVars, sevVars, outVars, cfgVars, mgrVars, envVars,
                   dbVars, grouped>>

GroupNext ==
    \/ GroupBenchmarkData
    \/ AnalyzeGroup

GroupSpec == GroupInit /\ [][GroupNext]_vars

\* One detector run and the prune of the baseline manager, which runs before
\* or after it, over days.
AppendOnlyNext ==
    \/ TickDays
    \/ ReportLoad
    \/ StoreCurrentMetrics
    \/ AnalyzeNext
    \/ FinishRun
    \/ CleanupOldData

AppendOnlySpec == ReportInit /\ [][AppendOnlyNext]_vars

-----------------------------------------------------------------------------
(* Store operations followed statement by statement.  Every operation is   *)
(*     with sqlite3.connect(self.db_path) as conn: <statements>            *)
(* sqlite3 opens a transaction before the first INSERT or DELETE of a      *)
(* connection; the connection's context manager commits it when the block  *)
(* is left normally and rolls it back when it is left by an exception; it  *)
(* does not close the connection.  Until the commit the changes are seen   *)
(* by this connection only: every other connection reads the committed     *)
(* tables, metricsTable and alertsTable.                                   *)
(* No operation calls conn.close(): a connection is closed when its object *)
(* is deallocated.  When the operation returns, a reference-counting       *)
(* interpreter deallocates it at once and any other one at some later      *)
(* collection; when the operation raises, the traceback of the exception   *)
(* holds the frame and with it the connection, which stays open until the  *)
(* exception is disposed of.                                               *)

\* The state of the connection object when the operation has returned.
ConnectionAfterReturn == {"open", "closed"}

\* An alert as an earlier detector run produced it: key (A, P1) at 3 against
\* five rows of 2.
EarlierAlert ==
    AnalyzeSingleMetric(
        [benchmark_name |-> "A", platform |-> "P1", execution_time_ns |-> 3,
         timestamp |-> IsoFormat(<<0, 0>>), branch |-> "main"],
        [i \in 1..MinSampleSize |-> HistoryRow(i, 2)], <<0, 0>>)

\* The store at the end of day 0: rows and alerts of earlier runs.
PruneInit ==
    /\ InitDefaults
    /\ now = <<0, MaxTod>>
    /\ \E histLen \in 0..MaxHist :
          /\ metricsTable = [i \in 1..histLen |-> HistoryRow(i, 2)]
          /\ nextMetricId = histLen + 1
    /\ \E k \in 0..MaxBatch : \E created \in [1..k -> Tods] :
          alertsTable =
              [i \in 1..k |-> StoreAlert(<<>>, EarlierAlert, <<0, created[i]>>)[1]]
    /\ pc = "start"
    /\ current_metrics = <<>>
    /\ idx = 1
    /\ alerts = <<>>
    /\ exitStatus = "none"
    /\ githubOutput = <<>>
    /\ sevCurrent = 0
    /\ sevResult = "unset"
    /\ secResult = SecondaryUnset

\* cleanup_old_data, lines 48-62: the cutoff, the connection, the two COUNTs.
PruneBegin ==
    /\ mgrPc = "idle"
    /\ txn.op = "none"
    /\ \E retain_days \in RetainChoices :
          LET cutoff_date == CutoffDate(now, retain_days)
              old_metrics_count ==
                  Len(SelectSeq(metricsTable, LAMBDA r : OldMetric(r, cutoff_date)))
              old_alerts_count ==
                  Len(SelectSeq(alertsTable, LAMBDA a : OldAlert(a, cutoff_date)))
          IN  txn' = [op |-> "cleanup_old_data",
                      step |-> IF old_metrics_count > 0 \/ old_alerts_count > 0
                               THEN "counted" ELSE "nothing_old",
                      connection |-> "open",
                      cutoff_date |-> cutoff_date,
                      batch |-> <<>>,
                      metrics |-> metricsTable, alerts |-> alertsTable,
                      before_metrics |-> metricsTable,
                      before_alerts |-> alertsTable]
    /\ mgrPc' = "cleaning"
    /\ UNCHANGED <<now, storeVars, runVars, sevVars, secVars, outVars, cfgVars, mgrExit, envVars, observed>>

\* Each DELETE commits at once, as under isolation_level = None.
PruneDeleteMetricsAutocommit ==
    /\ txn.op = "cleanup_old_data"
    /\ txn.step = "counted"
    /\ metricsTable' =
          SelectSeq(metricsTable, LAMBDA r : ~OldMetric(r, txn.cutoff_date))
    /\ txn' = [txn EXCEPT !.step = "metrics_deleted", !.metrics = metricsTable']
    /\ UNCHANGED <<now, nextMetricId, alertsTable, runVars, sevVars, secVars, outVars, cfgVars,
                   mgrVars, envVars, observed>>

\* DELETE FROM performance_metrics WHERE timestamp < ?  (lines 66-68): opens
\* the transaction.
PruneDeleteMetrics ==
    /\ txn.op = "cleanup_old_data"
    /\ txn.step = "counted"
    /\ txn' = [txn EXCEPT
                  !.step = "metrics_deleted",
                  !.metrics = SelectSeq(txn.metrics,
                                  LAMBDA r : ~OldMetric(r, txn.cutoff_date))]
    /\ UNCHANGED <<now, storeVars, runVars, sevVars, secVars, outVars, cfgVars, mgrVars, envVars,
                   observed>>

\* DELETE FROM regression_alerts WHERE created_at < ?  (lines 71-73), in the
\* same transaction.
PruneDeleteAlerts ==
    /\ txn.op = "cleanup_old_data"
    /\ txn.step = "metrics_deleted"
    /\ txn' = [txn EXCEPT
                  !.step = "alerts_deleted",
                  !.alerts = SelectSeq(txn.alerts,
                                 LAMBDA a : ~OldAlert(a, txn.cutoff_date))]
    /\ UNCHANGED <<now, storeVars, runVars, sevVars, secVars, outVars, cfgVars, mgrVars, envVars,
                   observed>>

\* The with block is left normally: commit.  cleanup_old_data returns.
PruneCommit ==
    /\ txn.op = "cleanup_old_data"
    /\ txn.step \in {"alerts_deleted", "nothing_old"}
    /\ metricsTable' = txn.metrics
    /\ alertsTable' = txn.alerts
    /\ \E c \in ConnectionAfterReturn :
          txn' = [txn EXCEPT !.step = "committed", !.connection = c]
    /\ mgrPc' = "cleaned"
    /\ UNCHANGED <<now, nextMetricId, runVars, sevVars, secVars, outVars, cfgVars, mgrExit, envVars,
                   observed>>

\* A statement raises sqlite3.Error (database locked, disk full), before or
\* between the two DELETEs or at the commit: the with block rolls back,
\* the exception reaches main's except clause, which returns 1.  A process
\* killed at this point leaves the same tables: the uncommitted changes
\* are discarded when the file is opened next.
PruneFails ==
    /\ txn.op = "cleanup_old_data"
    /\ txn.step \in {"counted", "metrics_deleted", "alerts_deleted"}
    /\ txn' = [txn EXCEPT !.step = "rolled_back",
                          !.metrics = metricsTable, !.alerts = alertsTable]
    /\ mgrPc' = "done"
    /\ mgrExit' = "1"
    /\ UNCHANGED <<now, storeVars, runVars, sevVars, secVars, outVars, cfgVars, envVars, observed>>

\* Another process (a detector run of another CI job, a dashboard) reads
\* both tables through its own connection: it sees the committed rows.
ConcurrentRead ==
    /\ observed' = [set |-> TRUE, during |-> txn.step,
                    metrics |-> metricsTable, alerts |-> alertsTable]
    /\ UNCHANGED <<now, storeVars, runVars, sevVars, secVars, outVars, cfgVars, mgrVars, envVars, txn>>

PruneNext ==
    \/ TickDays
    \/ TickTod
    \/ PruneBegin
    \/ PruneDeleteMetrics
    \/ PruneDeleteAlerts
    \/ PruneCommit
    \/ PruneFails
    \/ ConcurrentRead

PruneSpec == PruneInit /\ [][PruneNext]_vars

-----------------------------------------------------------------------------
(* get_recent_alerts over the alerts of earlier runs, called on the day    *)
(* they were created or a lookback period later.                           *)

DaysBackChoices == {0, DefaultAlertDaysBack, DefaultDaysBack}

QueryAlerts ==
    /\ \E days_back \in DaysBackChoices, unresolved_only \in BOOLEAN :
          recent' = [set |-> TRUE, days_back |-> days_back,
                     unresolved_only |-> unresolved_only, at |-> now,
                     rows |-> GetRecentAlerts(alertsTable, days_back,
                                              unresolved_only, now)]
    /\ UNCHANGED <<now, storeVars, runVars, sevVars, secVars, cfgVars, mgrVars,
                   envVars, dbVars, mgrLog>>

QueryNext ==
    \/ TickDays
    \/ TickTod
    \/ QueryAlerts

QuerySpec == PruneInit /\ [][QueryNext]_vars

-----------------------------------------------------------------------------
(* store_metrics followed statement by statement, while the detector of    *)
(* another CI job reads baselines from the same database file.             *)

\* store_metrics, line 133: the connection.
StoreMetricsBegin ==
    /\ pc = "loaded"
    /\ txn.op = "none"
    /\ txn' = [op |-> "store_metrics", step |-> "inserting",
               connection |-> "open", cutoff_date |-> IsoFormat(<<0, 0>>),
               batch |-> current_metrics,
               metrics |-> metricsTable, alerts |-> alertsTable,
               before_metrics |-> metricsTable, before_alerts |-> alertsTable]
    /\ UNCHANGED <<now, storeVars, runVars, sevVars, secVars, outVars, cfgVars,
                   mgrVars, envVars, observed>>

\* Each INSERT commits at once, as under isolation_level = None.
StoreMetricsInsertAutocommit ==
    /\ txn.op = "store_metrics"
    /\ txn.step = "inserting"
    /\ txn.batch # <<>>
    /\ metricsTable' =
          Append(metricsTable,
                 MetricRow(nextMetricId + Len(current_metrics) - Len(txn.batch),
                           Head(txn.batch)))
    /\ txn' = [txn EXCEPT !.metrics = metricsTable', !.batch = Tail(txn.batch)]
    /\ UNCHANGED <<now, nextMetricId, alertsTable, runVars, sevVars, secVars,
                   outVars, cfgVars, mgrVars, envVars, observed>>

\* One iteration of the loop of lines 134-145: the INSERT of the next
\* record; the first one opens the transaction.
StoreMetricsInsert ==
    /\ txn.op = "store_metrics"
    /\ txn.step = "inserting"
    /\ txn.batch # <<>>
    /\ txn' = [txn EXCEPT
                  !.metrics =
                      Append(txn.metrics,
                             MetricRow(nextMetricId + Len(current_metrics)
                                           - Len(txn.batch),
                                       Head(txn.batch))),
                  !.batch = Tail(txn.batch)]
    /\ UNCHANGED <<now, storeVars, runVars, sevVars, secVars, outVars, cfgVars,
                   mgrVars, envVars, observed>>

\* The loop is over and the with block is left: commit.  store_metrics
\* returns to main.
StoreMetricsCommit ==
    /\ txn.op = "store_metrics"
    /\ txn.step = "inserting"
    /\ txn.batch = <<>>
    /\ metricsTable' = txn.metrics
    /\ nextMetricId' = nextMetricId + Len(current_metrics)
    /\ \E c \in ConnectionAfterReturn :
          txn' = [txn EXCEPT !.step = "committed", !.connection = c]
    /\ pc' = "analyze"
    /\ UNCHANGED <<now, alertsTable, current_metrics, idx, alerts, exitStatus,
                   githubOutput, sevVars, secVars, outVars, cfgVars, mgrVars,
                   envVars, observed>>

\* json.dumps or an INSERT raises part-way through the batch (or the commit
\* fails, or the process is killed): the transaction is rolled back and the
\* exception leaves main.
StoreMetricsFailsPartway ==
    /\ txn.op = "store_metrics"
    /\ txn.step = "inserting"
    /\ txn' = [txn EXCEPT !.step = "rolled_back", !.metrics = metricsTable]
    /\ pc' = "done"
    /\ exitStatus' = "sqlite3.Error"
    /\ UNCHANGED <<now, storeVars, current_metrics, idx, alerts, githubOutput,
                   sevVars, secVars, outVars, cfgVars, mgrVars, envVars, observed>>

\* get_baseline_metrics of another invocation, through its own connection:
\* it reads the committed rows.
ConcurrentGetBaselineMetrics ==
    /\ \E benchmark_name \in Benchmarks, platform \in Platforms :
          observed' = [set |-> TRUE, during |-> txn.step,
                       metrics |-> GetBaselineMetrics(metricsTable, benchmark_name,
                                                      platform, DefaultDaysBack, now),
                       alerts |-> <<>>]
    /\ UNCHANGED <<now, storeVars, runVars, sevVars, secVars, outVars, cfgVars,
                   mgrVars, envVars, txn>>

StoreTxnNext ==
    \/ ReportLoad
    \/ StoreMetricsBegin
    \/ StoreMetricsInsert
    \/ StoreMetricsCommit
    \/ StoreMetricsFailsPartway
    \/ ConcurrentGetBaselineMetrics

StoreTxnSpec == ReportInit /\ [][StoreTxnNext]_vars

-----------------------------------------------------------------------------
(* The connection of every store operation: store_metrics and              *)
(* cleanup_old_data as above, and the three operations of one statement.   *)

SingleStatementOperations ==
    {"store_alert", "get_baseline_metrics", "get_recent_alerts"}

\* with sqlite3.connect(self.db_path) as conn: conn.execute(...) of
\* store_alert (lines 149-160), get_baseline_metrics (167-175) or
\* get_recent_alerts.
OperationExecute ==
    /\ txn.op = "none"
    /\ \E op \in SingleStatementOperations :
          txn' = [op |-> op, step |-> "executed", connection |-> "open",
                  cutoff_date |-> IsoFormat(MinusDays(now, DefaultDaysBack)),
                  batch |-> <<>>,
                  metrics |-> metricsTable,
                  alerts |-> IF op = "store_alert"
                             THEN StoreAlert(alertsTable, EarlierAlert, now)
                             ELSE alertsTable,
                  before_metrics |-> metricsTable,
                  before_alerts |-> alertsTable]
    /\ UNCHANGED <<now, storeVars, runVars, sevVars, secVars, outVars, cfgVars,
                   mgrVars, envVars, observed>>

\* The with block is left normally (commit) and the operation returns.
OperationReturns ==
    /\ txn.op \in SingleStatementOperations
    /\ txn.step = "executed"
    /\ alertsTable' = txn.alerts
    /\ \E c \in ConnectionAfterReturn :
          txn' = [txn EXCEPT !.step = "committed", !.connection = c]
    /\ UNCHANGED <<now, metricsTable, nextMetricId, runVars, sevVars, secVars,
                   outVars, cfgVars, mgrVars, envVars, observed>>

\* The statement, json.loads of a row or the commit raises: rollback, and
\* the exception leaves the operation.
OperationRaises ==
    /\ txn.op \in SingleStatementOperations
    /\ txn.step = "executed"
    /\ txn' = [txn EXCEPT !.step = "rolled_back", !.alerts = alertsTable]
    /\ UNCHANGED <<now, storeVars, runVars, sevVars, secVars, outVars, cfgVars,
                   mgrVars, envVars, observed>>

\* The connection object is deallocated, which closes the connection: the
\* collector ran, or the exception that held the frame was disposed of.
ConnectionDeallocated ==
    /\ txn.step \in {"committed", "rolled_back"}
    /\ txn.connection = "open"
    /\ txn' = [txn EXCEPT !.connection = "closed"]
    /\ UNCHANGED <<now, storeVars, runVars, sevVars, secVars, outVars, cfgVars,
                   mgrVars, envVars, observed>>

ConnectionNext ==
    \/ ReportLoad
    \/ StoreMetricsBegin
    \/ StoreMetricsInsert
    \/ StoreMetricsCommit
    \/ StoreMetricsFailsPartway
    \/ PruneBegin
    \/ PruneDeleteMetrics
    \/ PruneDeleteAlerts
    \/ PruneCommit
    \/ PruneFails
    \/ OperationExecute
    \/ OperationReturns
    \/ OperationRaises
    \/ ConnectionDeallocated

ConnectionSpec == PruneInit /\ [][ConnectionNext]_vars

-----------------------------------------------------------------------------
(* What the claims speak about *)

Analyzing == pc = "analyze" /\ idx <= Len(current_metrics)

CurrentMetric == current_metrics[idx]

\* baseline_metrics of the _analyze_single_metric call that is about to run
CurrentBaseline == BaselineOf(CurrentMetric, metricsTable, now)

\* rowids of the rows store_metrics wrote for the batch being processed
BatchRowIds == (nextMetricId - Len(current_metrics))..(nextMetricId - 1)

IdsOf(rows) == {rows[i].id : i \in 1..Len(rows)}

KeyRows(table, benchmark_name, platform) ==
    SelectSeq(table, LAMBDA r : r.benchmark_name = benchmark_name
                                /\ r.platform = platform)

NewestFirst(rows) ==
    \A i, j \in 1..Len(rows) :
        i < j => ~Earlier(InstantOf(rows[i].timestamp), InstantOf(rows[j].timestamp))

-----------------------------------------------------------------------------
SignGate ==
    [][(AnalyzeNext /\ Len(CurrentBaseline) >= 1
        /\ CurrentMetric.execution_time_ns * Len(CurrentBaseline)
               <= SumTimes(CurrentBaseline))
       => (alerts' = alerts /\ alertsTable' = alertsTable)]_vars

\* C3: no look-ahead.  The baseline fetched for a current record holds no
\* row written by the batch being processed and no row stamped later than
\* the current record.
NoLookAhead ==
    Analyzing =>
        \A i \in 1..Len(CurrentBaseline) :
            /\ CurrentBaseline[i].id \notin BatchRowIds
            /\ ~Earlier(InstantOf(CurrentMetric.timestamp),
                        InstantOf(CurrentBaseline[i].timestamp))

\* C4: sample-size gate.  A step of the analyzer that finds fewer than
\* MinSampleSize baseline rows for the record's key returns no alert and
\* persists none, and ends with the loop moving on to the next record.
SampleSizeGate ==
    [][(AnalyzeNext /\ Len(CurrentBaseline) < MinSampleSize)
       => (alerts' = alerts /\ alertsTable' = alertsTable
           /\ idx' = idx + 1 /\ pc' = "analyze")]_vars

\* Four baseline rows of mean m > 0, a first record of at least 3 m (a 200 %
\* increase) that is not among them, analyzed, and no alert anywhere.
SampleSizeGateWitness ==
    /\ pc = "analyze" /\ idx = 2
    /\ LET m == current_metrics[1]
           b == BaselineOf(m, metricsTable, now)
       IN  /\ Len(b) = MinSampleSize - 1
           /\ m.branch # "main"
           /\ SumTimes(b) > 0
           /\ m.execution_time_ns * Len(b) >= 3 * SumTimes(b)
    /\ alerts = <<>> /\ alertsTable = <<>>

\* C5: branch isolation.  Whatever the store holds, get_baseline_metrics
\* returns only rows of branch main, for every key.
BranchIsolation ==
    \A b \in Benchmarks, p \in Platforms :
        LET rows == GetBaselineMetrics(metricsTable, b, p, DefaultDaysBack, now)
        IN  \A i \in 1..Len(rows) : rows[i].branch = "main"

\* The only row of the current record's key is a feature-branch row, it is
\* the most recent row of the table, and the query for its key is empty.
BranchIsolationWitness ==
    /\ Analyzing
    /\ Len(metricsTable) > 1
    /\ LET rows == KeyRows(metricsTable, CurrentMetric.benchmark_name,
                           CurrentMetric.platform)
       IN  /\ Len(rows) = 1
           /\ rows[1].branch = "feature/x"
           /\ \A i \in 1..Len(metricsTable) :
                 ~Earlier(InstantOf(rows[1].timestamp),
                          InstantOf(metricsTable[i].timestamp))
    /\ CurrentBaseline = <<>>

NoImplicitDedup ==
    [][StoreCurrentMetrics =>
          \A b \in Benchmarks, p \in Platforms :
              Len(GetBaselineMetrics(metricsTable', b, p, DefaultDaysBack, now'))
                = Len(GetBaselineMetrics(metricsTable, b, p, DefaultDaysBack, now))
                  + Cardinality(
                      {i \in 1..Len(current_metrics) :
                          /\ current_metrics[i].benchmark_name = b
                          /\ current_metrics[i].platform = p
                          /\ current_metrics[i].branch = "main"
                          /\ Earlier(MinusDays(now, DefaultDaysBack),
                                     InstantOf(current_metrics[i].timestamp))})]_vars

\* Every record of the batch just stored was already in the store (the same
\* batch inserted a second time), and the query returns both copies.
NoImplicitDedupWitness ==
    /\ Analyzing
    /\ idx = 1
    /\ \A k \in 1..Len(current_metrics) :
          \E i \in 1..Len(metricsTable) :
              /\ metricsTable[i].id \notin BatchRowIds
              /\ SameMetric(metricsTable[i], current_metrics[k])
              /\ metricsTable[i].id \in IdsOf(CurrentBaseline)
    /\ BatchRowIds \subseteq IdsOf(CurrentBaseline)

\* C8: a record whose baseline mean is zero or negative is skipped: the
\* analyzer step adds no alert, does not end the run, and the loop goes on
\* with the next record.
NonPositiveMeanSkipped ==
    [][(AnalyzeNext /\ Len(CurrentBaseline) >= MinSampleSize
        /\ SumTimes(CurrentBaseline) <= 0)
       => (alerts' = alerts /\ alertsTable' = alertsTable
           /\ idx' = idx + 1 /\ pc' = "analyze")]_vars

\* C9: an entry whose execution time is zero or negative is dropped before
\* persistence: no row written by the run has a non-positive
\* execution_time_ns.
InvalidEntriesDropped ==
    [][\A i \in 1..Len(metricsTable') :
          metricsTable'[i].id >= nextMetricId
              => metricsTable'[i].execution_time_ns > 0]_vars

\* C10: cleanup_old_data(retain_days) removes exactly the metric rows stamped
\* before now - retain_days and the alerts created before it, and no other
\* row.  (created_at is cut to whole seconds, so an alert whose created_at
\* equals the cutoff may go either way here.)
PruneRemovesExactlyOld ==
    [][\A retain_days \in RetainChoices :
          CleanupOldDataWith(retain_days) =>
             LET cutoff == MinusDays(now, retain_days)
             IN  /\ metricsTable' =
                      SelectSeq(metricsTable,
                          LAMBDA r : ~Earlier(InstantOf(r.timestamp), cutoff))
                 /\ \A i \in 1..Len(alertsTable) :
                       Earlier(cutoff, InstantOf(alertsTable[i].created_at))
                           => \E j \in 1..Len(alertsTable') :
                                 alertsTable'[j] = alertsTable[i]
                 /\ \A j \in 1..Len(alertsTable') :
                       ~Earlier(InstantOf(alertsTable'[j].created_at), cutoff)]_vars

\* The order of the tiers.
SeverityRank(severity) ==
    CASE severity = "none" -> 0
      [] severity = "minor" -> 1
      [] severity = "moderate" -> 2
      [] severity = "major" -> 3
      [] severity = "critical" -> 4

\* C11 (as claimed): monotonicity.  Under the default thresholds and under
\* every monotonic overriding set, the severity does not decrease when the
\* change percent x rises against a fixed baseline, and it is none for every
\* x < 5.  (sevCurrent - 1000 is x in tenths of a percent.)
SeverityMonotonicNoneBelowFive ==
    /\ [](sevResult # "unset" /\ sevCurrent - 1000 < 10 * ThresholdMinor
            => sevResult = "none")
    /\ [][(sevResult # "unset" /\ sevCurrent' > sevCurrent)
            => SeverityRank(sevResult') >= SeverityRank(sevResult)]_vars

\* C11 (amended): under the default thresholds and under every monotonic
\* overriding set, the severity does not decrease when the change percent x
\* rises against a fixed baseline, and it is none for every x below the
\* minor threshold of the set in force (5 for the defaults).
SeverityMonotonicNoneBelowMinor ==
    /\ [](sevResult # "unset" /\ sevCurrent - 1000 < 10 * thresholds.minor
            => sevResult = "none")
    /\ [][(sevResult # "unset" /\ sevCurrent' > sevCurrent)
            => SeverityRank(sevResult') >= SeverityRank(sevResult)]_vars

\* An overriding set whose minor threshold is 3, and x = 4 classified minor
\* after the lower values were classified.
SeverityMonotonicWitness ==
    /\ thresholds.minor = 3
    /\ thresholds # DefaultThresholds
    /\ sevCurrent = 1040
    /\ sevResult = "minor"

\* The Severity Policy: the tier of a change percent num/den (den > 0).
PolicyTier(change_percent) ==
    LET num == change_percent.num
        den == change_percent.den
    IN  IF num < 5 * den THEN "none"
        ELSE IF num < 15 * den THEN "minor"
        ELSE IF num < 25 * den THEN "moderate"
        ELSE IF num < 50 * den THEN "major"
        ELSE "critical"

\* C12: every row of regression_alerts has a severity among minor,
\* moderate, major and critical, a strictly positive change_percent equal to
\* (current_value - baseline_value) / baseline_value * 100, and the severity
\* the Severity Policy gives that change_percent.
AlertRowInvariant ==
    \A i \in 1..Len(alertsTable) :
        LET a == alertsTable[i]
            sum == a.baseline_value.sum
            n == a.baseline_value.n
        IN  /\ a.severity \in {"minor", "moderate", "major", "critical"}
            /\ a.change_percent.den > 0
            /\ a.change_percent.num > 0
            /\ sum # 0
            /\ (a.current_value * n - sum) * 100 * a.change_percent.den
                   = a.change_percent.num * sum
            /\ a.severity = PolicyTier(a.change_percent)

\* Both records of a run were stored as alerts, of different tiers below
\* critical, the second against a baseline of unequal times.
AlertRowWitness ==
    /\ Len(alertsTable) = 2
    /\ alertsTable[1].severity = "minor"
    /\ alertsTable[2].severity = "moderate"
    /\ alertsTable[2].statistical_significance = "ttest_1samp"

\* The alerts the finished run produced for a benchmark.
AlertsFor(benchmark_name) ==
    SelectSeq(alerts, LAMBDA a : a.benchmark_name = benchmark_name)

\* C13: significance is no gate.  When main has returned after analyzing two
\* records of the same execution time against baselines (of MinSampleSize
\* rows or more) of the same mean,
\* either both raised an alert, of the same severity and change percent, or
\* neither did, whatever the spread of the two baselines.
SignificanceNeverGates ==
    (pc = "done" /\ exitStatus = "0" /\ Len(current_metrics) = 2) =>
        LET a == KeyRows(metricsTable, "A", "P1")
            b == KeyRows(metricsTable, "B", "P1")
            base_a == SelectSeq(a, LAMBDA r : r.branch = "main")
            base_b == SelectSeq(b, LAMBDA r : r.branch = "main")
        IN  (/\ Len(base_a) >= MinSampleSize
             /\ Len(base_b) >= MinSampleSize
             /\ SumTimes(base_a) * Len(base_b) = SumTimes(base_b) * Len(base_a))
            => /\ Len(AlertsFor("A")) = Len(AlertsFor("B"))
               /\ Len(AlertsFor("A")) = 1 =>
                     /\ AlertsFor("A")[1].severity = AlertsFor("B")[1].severity
                     /\ AlertsFor("A")[1].change_percent.num
                          * AlertsFor("B")[1].change_percent.den
                        = AlertsFor("B")[1].change_percent.num
                          * AlertsFor("A")[1].change_percent.den

\* Two alerts of severity moderate for the same current value and the same
\* baseline mean, one with significance 1.0 (no spread) and one with the
\* p-value of the t-test.
SignificanceNeverGatesWitness ==
    /\ pc = "done" /\ exitStatus = "0"
    /\ Len(alerts) = 2
    /\ alerts[1].severity = "moderate" /\ alerts[2].severity = "moderate"
    /\ alerts[1].baseline_value.sum * alerts[2].baseline_value.n
         = alerts[2].baseline_value.sum * alerts[1].baseline_value.n
    /\ alerts[1].statistical_significance = "1.0"
    /\ alerts[2].statistical_significance = "ttest_1samp"

\* C14: end to end.  Over a baseline of ten main-branch records around
\* 45.2 ms of one key, the pipeline (store the batch, then analyze it) run on
\* one record of 61.0 ms of that key ends with exactly one alert, returned
\* and stored, of severity major and of a change percent of about 35
\* (between 34 and 36).
EndToEndOneMajorAlert ==
    pc = "done" =>
        /\ exitStatus = "0"
        /\ Len(alerts) = 1
        /\ Len(alertsTable) = 1
        /\ alerts[1].severity = "major"
        /\ 34 * alerts[1].change_percent.den <= alerts[1].change_percent.num
        /\ alerts[1].change_percent.num <= 36 * alerts[1].change_percent.den

\* What _analyze_single_metric returns for record i of the batch, called now.
OutcomeOf(i) == AnalyzeSingleMetric(current_metrics[i], metricsTable, now)

\* Record i of the batch was compared with its baseline and no regression
\* was found.
ComparedNoRegression(i) ==
    LET b == BaselineOf(current_metrics[i], metricsTable, now)
    IN  /\ ~InsufficientData(b)
        /\ SumTimes(b) # 0
        /\ CalculateSeverity(ChangePercent(current_metrics[i].execution_time_ns,
                                           SumTimes(b), Len(b))) = "none"

\* C15: the analyzer's result for a record with fewer than MinSampleSize
\* baseline rows (no data) is never the same value as its result for a
\* record that was compared and showed no regression.
NoDataDistinguishable ==
    pc = "analyze" =>
        \A i, j \in 1..Len(current_metrics) :
            (/\ InsufficientData(BaselineOf(current_metrics[i], metricsTable, now))
             /\ ComparedNoRegression(j))
            => OutcomeOf(i) # OutcomeOf(j)

\* The tier of the primary policy that a tier name of the secondary
\* detector stands for.
PrimaryNameOf(severity) ==
    CASE severity = "low" -> "minor"
      [] severity = "medium" -> "moderate"
      [] severity = "high" -> "major"
      [] severity = "critical" -> "critical"

\* C16: one severity policy.  For the same change percent (current value
\* sevCurrent against a baseline mean of 100.0 ms) the secondary detector
\* reports a regression exactly when the primary policy gives a tier other
\* than none, and its tier is the primary one: the boundaries of both are
\* 5, 15, 25 and 50 percent, lower bound inclusive.
SingleSeverityPolicy ==
    (sevResult # "unset" /\ secResult # SecondaryUnset /\ sevCurrent > 0) =>
        /\ (sevResult # "none") <=> (secResult.kind = "regression")
        /\ (secResult.kind = "regression")
               => PrimaryNameOf(secResult.severity) = sevResult

\* C17: regressions never fail the run.  A run that loaded at least one
\* record (no store operation fails in this specification) ends with main
\* returning 0, whether it produced alerts or not, and the regression count
\* it reports is the number of alerts it produced.
RegressionsNeverFailRun ==
    (pc = "done" /\ current_metrics # <<>>) =>
        /\ exitStatus = "0"
        /\ Len(githubOutput) = 1
        /\ githubOutput[1].regression_count = Len(alerts)
        /\ githubOutput[1].has_regressions = (alerts # <<>>)

\* C18: a store failure is fatal.  When store_metrics, get_baseline_metrics
\* or store_alert raises, the exception ends main at once: the record at
\* hand and those after it are not processed, nothing more is written to
\* the store or to GITHUB_OUTPUT, and the run never ends with status 0.
StoreFailureFatal ==
    /\ [][(StoreMetricsFails \/ GetBaselineMetricsFails \/ StoreAlertFails)
            => (/\ pc' = "done"
                /\ exitStatus' = "sqlite3.Error"
                /\ idx' = idx
                /\ UNCHANGED <<storeVars, githubOutput>>)]_vars
    /\ [][exitStatus = "sqlite3.Error"
            => UNCHANGED <<storeVars, runVars>>]_vars
    /\ [](exitStatus = "sqlite3.Error" => githubOutput = <<>>)

\* The first record's alert was stored, store_alert failed on the second
\* record, and the run is over with the exception.
StoreFailureWitness ==
    /\ pc = "done"
    /\ exitStatus = "sqlite3.Error"
    /\ Len(current_metrics) = 2
    /\ idx = 2
    /\ Len(alertsTable) = 1
    /\ Len(alerts) = 2

\* C19: the lookback window is the configured one.  In a run started with
\* --baseline-days N, the baseline fetched for a record holds no row stamped
\* before now - N days and holds every main-branch row of the record's key
\* stamped after now - N days.
ConfiguredLookbackUsed ==
    Analyzing =>
        LET cutoff == MinusDays(now, baseline_days)
        IN  /\ \A i \in 1..Len(CurrentBaseline) :
                  ~Earlier(InstantOf(CurrentBaseline[i].timestamp), cutoff)
            /\ \A j \in 1..Len(metricsTable) :
                  (/\ metricsTable[j].benchmark_name = CurrentMetric.benchmark_name
                   /\ metricsTable[j].platform = CurrentMetric.platform
                   /\ metricsTable[j].branch = "main"
                   /\ Earlier(cutoff, InstantOf(metricsTable[j].timestamp)))
                  => metricsTable[j].id \in IdsOf(CurrentBaseline)

\* C20: a failure of the optimization pass after a prune leaves the pruned
\* store as the prune left it and is not propagated: the baseline-management
\* run still ends successfully, with status 0.
OptimizeFailureNotPropagated ==
    /\ [][MgrOptimizeFails => UNCHANGED storeVars]_vars
    /\ [](mgrPc = "done" => mgrExit = "0")

\* C21: after any sequence of detector runs on one output directory, the
\* summary report found there after a run that returned 0 indicates
\* regressions exactly when that run produced at least one alert.
ReportReflectsLatestRun ==
    (pc = "done" /\ exitStatus = "0") =>
        (ReportIndicatesRegressions(report) <=> alerts # <<>>)

\* The two tables as cleanup_old_data leaves them when it succeeds.
PrunedTables(metrics, alert_rows, cutoff_date) ==
    <<SelectSeq(metrics, LAMBDA r : ~OldMetric(r, cutoff_date)),
      SelectSeq(alert_rows, LAMBDA a : ~OldAlert(a, cutoff_date))>>

\* Both tables pruned, or both as they were before the prune.
BothOrNeither(metrics, alert_rows) ==
    \/ <<metrics, alert_rows>> = <<txn.before_metrics, txn.before_alerts>>
    \/ <<metrics, alert_rows>> =
          PrunedTables(txn.before_metrics, txn.before_alerts, txn.cutoff_date)

\* C22: the prune is atomic across both tables.  At every moment of a
\* cleanup_old_data call and after it, the stored tables, and whatever
\* another connection read of them, show either both tables without their
\* old rows or both tables unchanged; a call that failed left both
\* unchanged and a call that returned left both pruned.
PruneAtomic ==
    txn.op = "cleanup_old_data" =>
        /\ BothOrNeither(metricsTable, alertsTable)
        /\ observed.set => BothOrNeither(observed.metrics, observed.alerts)
        /\ txn.step = "rolled_back" =>
              <<metricsTable, alertsTable>> = <<txn.before_metrics, txn.before_alerts>>
        /\ txn.step = "committed" =>
              /\ <<metricsTable, alertsTable>> =
                    PrunedTables(txn.before_metrics, txn.before_alerts, txn.cutoff_date)
              /\ \A i \in 1..Len(metricsTable) :
                    ~Earlier(InstantOf(metricsTable[i].timestamp),
                             InstantOf(txn.cutoff_date))
              /\ \A i \in 1..Len(alertsTable) :
                    ~Earlier(InstantOf(alertsTable[i].created_at),
                             InstantOf(txn.cutoff_date))

\* A prune with old rows in both tables failed between the two DELETEs and
\* another connection read the tables in between.
PruneAtomicWitness ==
    /\ txn.op = "cleanup_old_data"
    /\ txn.step = "rolled_back"
    /\ Len(txn.metrics) > 0
    /\ \E i \in 1..Len(txn.before_metrics) :
          OldMetric(txn.before_metrics[i], txn.cutoff_date)
    /\ \E i \in 1..Len(txn.before_alerts) :
          OldAlert(txn.before_alerts[i], txn.cutoff_date)
    /\ observed.set
    /\ observed.during = "metrics_deleted"

\* The stored row carries the fields of the alert.
AlertRowOf(alert, row) ==
    /\ row.benchmark_name = alert.benchmark_name
    /\ row.platform = alert.platform
    /\ row.severity = alert.severity
    /\ row.current_value = alert.current_value
    /\ row.baseline_value = alert.baseline_value
    /\ row.change_percent = alert.change_percent
    /\ row.timestamp = alert.timestamp
    /\ row.statistical_significance = alert.statistical_significance

\* The alert is about this record.
AlertAbout(alert, metric) ==
    /\ alert.benchmark_name = metric.benchmark_name
    /\ alert.platform = metric.platform
    /\ alert.current_value = metric.execution_time_ns
    /\ alert.timestamp = metric.timestamp

\* C23: analyze_current_metrics returns at most one alert per current
\* record, in the order of the records, and the alerts it returned are
\* exactly the rows the call added to the alert table, each added once:
\* every iteration either adds nothing, or one alert about its record at the
\* end of the list and one matching row at the end of the table; no other
\* step of a run touches the table; so the last Len(alerts) rows of the
\* table are the alerts of the call, in order.
AlertsAreTheRowsAdded ==
    /\ [][AnalyzeNext =>
             \/ alerts' = alerts /\ alertsTable' = alertsTable
             \/ /\ idx' = idx + 1
                /\ Len(alerts') = Len(alerts) + 1
                /\ SubSeq(alerts', 1, Len(alerts)) = alerts
                /\ AlertAbout(alerts'[Len(alerts')], current_metrics[idx])
                /\ Len(alertsTable') = Len(alertsTable) + 1
                /\ SubSeq(alertsTable', 1, Len(alertsTable)) = alertsTable
                /\ AlertRowOf(alerts'[Len(alerts')], alertsTable'[Len(alertsTable')])]_vars
    /\ [][~AnalyzeNext => alertsTable' = alertsTable]_vars
    /\ []((pc \in {"analyze", "done"} /\ exitStatus \in {"none", "0"}) =>
             /\ Len(alerts) <= idx - 1
             /\ Len(alerts) <= Len(alertsTable)
             /\ \A k \in 1..Len(alerts) :
                   AlertRowOf(alerts[k],
                              alertsTable[Len(alertsTable) - Len(alerts) + k])
             /\ \E f \in [1..Len(alerts) -> 1..Len(current_metrics)] :
                   /\ \A k \in 1..Len(alerts) : AlertAbout(alerts[k], current_metrics[f[k]])
                   /\ \A k \in 1..Len(alerts) : f[k] < idx
                   /\ \A k, l \in 1..Len(alerts) : k < l => f[k] < f[l])

\* A second run on the same store returned two alerts; the table also holds
\* a row of the first run.
AlertsAreTheRowsAddedWitness ==
    /\ pc = "done"
    /\ exitStatus = "0"
    /\ runs = 2
    /\ Len(alerts) = 2
    /\ Len(alertsTable) > Len(alerts)

\* The row is still in the table, with every field as it was.
StillStored(r, table) == \E j \in 1..Len(table) : table[j] = r

\* C24: metric rows are append-only.  store_metrics adds exactly one row per
\* record of the batch, after the existing rows, which it leaves unchanged;
\* every step other than store_metrics and the prune leaves the table as it
\* is; the prune changes no row it keeps and removes a row only if the row's
\* timestamp is earlier than now - retain_days.
MetricRowsAppendOnly ==
    /\ [][StoreCurrentMetrics =>
             /\ Len(metricsTable') = Len(metricsTable) + Len(current_metrics)
             /\ SubSeq(metricsTable', 1, Len(metricsTable)) = metricsTable
             /\ \A k \in 1..Len(current_metrics) :
                   LET row == metricsTable'[Len(metricsTable) + k]
                   IN  /\ row.benchmark_name = current_metrics[k].benchmark_name
                       /\ row.platform = current_metrics[k].platform
                       /\ row.execution_time_ns = current_metrics[k].execution_time_ns
                       /\ row.timestamp = current_metrics[k].timestamp
                       /\ row.branch = current_metrics[k].branch
                       /\ \A i \in 1..Len(metricsTable) : metricsTable[i].id # row.id]_vars
    /\ [][(~StoreCurrentMetrics /\ ~CleanupOldData) =>
             metricsTable' = metricsTable]_vars
    /\ [][\A retain_days \in RetainChoices :
             CleanupOldDataWith(retain_days) =>
                /\ metricsTable' =
                      SelectSeq(metricsTable, LAMBDA r : StillStored(r, metricsTable'))
                /\ \A i \in 1..Len(metricsTable) :
                      ~StillStored(metricsTable[i], metricsTable') =>
                          Earlier(InstantOf(metricsTable[i].timestamp),
                                  MinusDays(now, retain_days))]_vars

\* After a run stored its batch behind older rows, a prune removed the older
\* rows and kept the batch, whose rows are stamped with the cutoff itself.
MetricRowsAppendOnlyWitness ==
    /\ pc = "done"
    /\ exitStatus = "0"
    /\ metricsTable # <<>>
    /\ Len(metricsTable) = Len(current_metrics)
    /\ \A i \in 1..Len(metricsTable) :
          /\ metricsTable[i].id > MaxHist
          /\ metricsTable[i].timestamp = IsoFormat(now)

\* n * sum(x^2) - sum(x)^2 of the execution times of the rows: n * (n - 1)
\* times their sample variance.
RECURSIVE SumSquaredTimes(_)
SumSquaredTimes(rows) ==
    IF rows = <<>> THEN 0
    ELSE Head(rows).execution_time_ns * Head(rows).execution_time_ns
         + SumSquaredTimes(Tail(rows))

ScaledVariance(rows) ==
    Len(rows) * SumSquaredTimes(rows) - SumTimes(rows) * SumTimes(rows)

\* C25: an alert emitted against a baseline of zero variance carries the
\* statistical_significance 1.0, and an alert carries the p-value of the
\* t-test only if the variance of its baseline is greater than zero.
ZeroVarianceSignificanceOne ==
    \A k \in 1..Len(alerts) :
        LET baseline_metrics ==
                GetBaselineMetrics(metricsTable, alerts[k].benchmark_name,
                                   alerts[k].platform, DefaultDaysBack, now)
        IN  /\ ScaledVariance(baseline_metrics) = 0 =>
                  alerts[k].statistical_significance = "1.0"
            /\ alerts[k].statistical_significance = "ttest_1samp" =>
                  ScaledVariance(baseline_metrics) > 0
            /\ alerts[k].statistical_significance \in {"1.0", "ttest_1samp"}

\* The run ended with one critical alert, for key (A, P1), whose baseline is
\* five equal rows; the record of key (B, P1) raised none.
ZeroVarianceSignificanceOneWitness ==
    /\ pc = "done" /\ exitStatus = "0"
    /\ Len(alerts) = 1
    /\ alerts[1].benchmark_name = "A"
    /\ alerts[1].severity = "critical"
    /\ alerts[1].statistical_significance = "1.0"
    /\ Len(SelectSeq(KeyRows(metricsTable, "A", "P1"),
                     LAMBDA r : r.branch = "main")) = MinSampleSize

\* The arrival positions of the items.
Arrivals(items) == {items[i].arrival : i \in 1..Len(items)}

\* C26: the split-sample strategy.  For a group with n >= 2 items of positive
\* timing, the baseline is the first n \div 2 of them in arrival order and
\* the current sample is the rest: both are non-empty, they share no item,
\* together they hold every valid item, and every baseline item arrived
\* before every current item.  A group with fewer than 2 valid items is
\* reported neither as a regression nor as an improvement.
SplitSample ==
    split.kind # "unset" =>
        LET valid == {i \in 1..Len(grouped) :
                          grouped[i].avg_execution_time_ns > 0}
            n == Cardinality(valid)
        IN  /\ n >= 2 =>
                  /\ split.kind = "compared"
                  /\ Len(split.baseline) = n \div 2
                  /\ Len(split.current) = n - n \div 2
                  /\ split.baseline # <<>> /\ split.current # <<>>
                  /\ Cardinality(Arrivals(split.baseline)) = Len(split.baseline)
                  /\ Cardinality(Arrivals(split.current)) = Len(split.current)
                  /\ Arrivals(split.baseline) \cap Arrivals(split.current) = {}
                  /\ Arrivals(split.baseline) \cup Arrivals(split.current) = valid
                  /\ \A b \in Arrivals(split.baseline) :
                        \A c \in Arrivals(split.current) : b < c
                  /\ \A k \in 1..Len(split.baseline) :
                        split.baseline[k] = grouped[split.baseline[k].arrival]
                  /\ \A k \in 1..Len(split.current) :
                        split.current[k] = grouped[split.current[k].arrival]
            /\ n < 2 =>
                  /\ split.kind = "skipped"
                  /\ split.outcome.kind \notin {"regression", "improvement"}

\* A group of four items, one of them without a positive timing: one
\* baseline item, two current items, reported as a regression.
SplitSampleWitness ==
    /\ split.kind = "compared"
    /\ Len(grouped) = 4
    /\ Len(split.baseline) = 1
    /\ Len(split.current) = 2
    /\ split.outcome.kind = "regression"

\* C27: get_recent_alerts(days_back, unresolved_only) returns exactly the
\* stored alerts created within the last days_back days, the unresolved
\* ones only when unresolved_only is set, newest first: an alert created
\* later than the cutoff instant now - days_back is returned, one created
\* before it is not, and no row is returned twice.
QueryAlertsWindow ==
    recent.set =>
        LET cutoff == MinusDays(recent.at, recent.days_back)
            returned == {recent.rows[k].id : k \in 1..Len(recent.rows)}
            wanted(i) == recent.unresolved_only => alertsTable[i].resolved = FALSE
        IN  /\ \A i \in 1..Len(alertsTable) :
                  (Earlier(cutoff, InstantOf(alertsTable[i].created_at)) /\ wanted(i))
                      => i \in returned
            /\ \A i \in returned :
                  /\ i \in 1..Len(alertsTable)
                  /\ ~Earlier(InstantOf(alertsTable[i].created_at), cutoff)
                  /\ wanted(i)
            /\ Cardinality(returned) = Len(recent.rows)
            /\ \A k, l \in 1..Len(recent.rows) :
                  k < l => ~Earlier(InstantOf(recent.rows[k].created_at),
                                    InstantOf(recent.rows[l].created_at))

\* The rows of the batch among the rows a reader got.
BatchRowsSeen(rows) ==
    {k \in 1..Len(rows) : ~StillStored(rows[k], txn.before_metrics)}

\* C29: store_metrics is all-or-nothing and atomic towards other
\* invocations.  The stored table is at every moment either the table as it
\* was or that table followed by one row per record of the batch; after a
\* failure part-way it is the table as it was; and a get_baseline_metrics
\* call of another invocation that returned rows of the batch returned one
\* for every record of the batch that has its key.
StoreMetricsAtomic ==
    txn.op = "store_metrics" =>
        /\ \/ metricsTable = txn.before_metrics
           \/ metricsTable =
                 StoreMetrics(txn.before_metrics, current_metrics,
                              Len(txn.before_metrics) + 1)
        /\ txn.step \in {"inserting", "rolled_back"} =>
              metricsTable = txn.before_metrics
        /\ txn.step = "committed" =>
              Len(metricsTable) = Len(txn.before_metrics) + Len(current_metrics)
        /\ (observed.set /\ BatchRowsSeen(observed.metrics) # {}) =>
              LET seen == observed.metrics[CHOOSE k \in BatchRowsSeen(observed.metrics) : TRUE]
              IN  Cardinality(BatchRowsSeen(observed.metrics)) =
                      Len(SelectSeq(current_metrics,
                              LAMBDA m : /\ m.benchmark_name = seen.benchmark_name
                                         /\ m.platform = seen.platform))

\* A batch of two records of one key failed after its first INSERT; another
\* invocation queried that key in between and saw none of the batch.
StoreMetricsAtomicWitness ==
    /\ txn.op = "store_metrics"
    /\ txn.step = "rolled_back"
    /\ Len(current_metrics) = 2
    /\ Len(txn.batch) = 1
    /\ observed.set
    /\ observed.during = "inserting"
    /\ Len(observed.metrics) = MaxHist

\* C28: every store operation releases what it opened on every exit path.
\* Once store_metrics, store_alert, get_baseline_metrics, get_recent_alerts
\* or cleanup_old_data has returned or raised, its transaction is ended
\* (committed or rolled back, no uncommitted change left) and its connection
\* is closed.
NoConnectionLeftOpen ==
    txn.step \in {"committed", "rolled_back"} =>
        /\ <<txn.metrics, txn.alerts>> = <<metricsTable, alertsTable>>
        /\ txn.connection = "closed"

\* The step was logged by the run.
Logged(step) == \E k \in 1..Len(mgrLog) : mgrLog[k] = step

\* C30: in a baseline-management run with --backup, --validate and
\* --cleanup-old-data, a row is deleted only after the backup of this run
\* completed successfully and its validation passed.
DeletesOnlyAfterBackupAndValidation ==
    [][(\/ Len(metricsTable') < Len(metricsTable)
        \/ Len(alertsTable') < Len(alertsTable))
           => (Logged("backup_ok") /\ Logged("validation_passed"))]_vars

====
